---- MODULE Spec2Model ----
(***************************************************************************)
(* A model of mpmetrics: the hot/cold double-buffered sampling protocol of *)
(* Summary and Histogram (mpmetrics/metrics.py) over the atomic cells of   *)
(* mpmetrics/atomic.py, and the shared-memory arena allocator Heap.malloc  *)
(* (mpmetrics/heap.py).                                                    *)
(*                                                                         *)
(* Spec     : Summary / Histogram observe and _sample, any interleaving.   *)
(* FairSpec : the same, with every started call scheduled fairly.          *)
(* HeapSpec : Heap.malloc called by several processes sharing the arena.   *)
(* DerefSpec: Block.deref in the allocating process, in forked children    *)
(*            and in processes that unpickled the heap.                    *)
(* CellSpec : add, get and set on one atomic cell, native or lock-based.   *)
(* OrderSpec: the ordering test of tests/atomic_test.py on two cells.      *)
(* CounterSpec: Counter.inc and _sample, any interleaving.                 *)
(* LabeledSpec: LabeledCollector.labels and collect called by threads of   *)
(*            several processes.                                           *)
(* EnumSpec : Enum construction, state and _sample.                        *)
(* FactorySpec: the bucket thresholds that _HistogramFactory builds.       *)
(* GaugeSpec: Gauge.track_inprogress scopes and _sample.                   *)
(* DictSpec : queries and mutations of a Dict kept in an arena block.      *)
(* TicketSpec: Spec started from a metric that has taken observations.     *)
(* StuckSpec: Spec started from a metric whose writer was killed between   *)
(*            its ticket and its last data add.                            *)
(* ListSpec : += and append through the names bound to a shared List.      *)
(* MaskSpec : util.genmask on every pair of bit numbers.                   *)
(***************************************************************************)
EXTENDS Integers, Sequences, FiniteSets, TLC

VARIABLES
    kind,       \* "summary" or "histogram": which metric was constructed
    count_,     \* the metric's _count cell: top bit selects the hot buffer
    data,       \* _data[0], _data[1]: records sum, count, buckets
    lock,       \* the metric's _lock: NoProc or the process that holds it
    exemplars,  \* Histogram._exemplars, one slot for each bucket
    pc,         \* the position of each process inside observe or _sample
    loc,        \* the local variables of each process's running call
    calls,      \* history: number and summed amounts of observe calls made
    tickets,    \* history: number and summed amounts of ticket fetch-adds
    nsample,    \* history: number of _sample calls made
    base,       \* Heap._base.value, the next free offset (in shared memory)
    flen,       \* the length of the file backing the arena
    hlock,      \* Heap._shared_lock: NoProc or the process that holds it
    hpc,        \* the position of each process inside Heap.malloc
    hloc,       \* the local variables of each process's malloc call
    blocks,     \* history: the Blocks returned by malloc, in order of return
    raised,     \* history: <<the last malloc call that raised, with its error>>
    nmalloc,    \* history: number of malloc calls made
    origin,     \* how each process came to hold the Heap object, or "none"
    maps,       \* Heap._maps of each process: the length mapped at each slot
    written,    \* history: <<file offset, block>> of each byte written
    heaps,      \* the number of Heap objects, each with its own _maps, that
                \* each process holds for the backing file
    impl,       \* what atomic.AtomicInt64 / AtomicUInt64 are: "native" or "locking"
    ctype,      \* the integer type of the atomic cells: "Int64" or "UInt64"
    cell,       \* the value of each atomic cell (in shared memory)
    clock,      \* _Locking._lock of each cell: NoProc or its holder
    apc,        \* the position of each process in its program and atomic call
    aloc,       \* the arguments and results of each process's atomic call
    iter,       \* number of loop iterations / calls each process has started
    counter_lock,     \* Counter._lock: NoProc or the process that holds it
    counter_exemplar, \* Counter._exemplar_amount, _timestamp and _labels
    counter_hist,     \* history of the Counter: calls made, amounts passed,
                      \* and the _total of the last completed _sample
    labeled_metrics,     \* LabeledCollector._metrics: label tuple -> block
    labeled_shared_lock, \* LabeledCollector._shared_lock: its holder
    labeled_cache,       \* _cache of each process: <<[values, metric]>>
    labeled_lock,        \* _lock of each process: NoProc or the holding thread
    lpc,                 \* the position of each thread in labels or collect
    lloc,                \* the local variables of each thread's call
    labeled_hist,        \* history: calls made and children created
    enum_states,         \* Enum._states, the declared list
    enum_value,          \* Enum._value, the index of the selected state
    enum_loc,            \* each process's position and locals in Enum._sample
    enum_hist,           \* history: constructed or not, calls made, the last
                         \* name that state() selected
    factory_buckets,     \* the buckets= argument of a Histogram constructor
    factory_result,      \* what _HistogramFactory.__call__ made of it
    gauge_scopes,        \* the track_inprogress scopes of a Gauge: those that
                         \* each process is inside, and all entered so far
    object_header,       \* Object._start, _size, _len of a shared Dict
    object_payload,      \* the memory of the block (_start, _size)
    dict_model,          \* the reference mapping (a Python dict)
    dict_hist,           \* history: the next free offset of the heap, the
                         \* mutations made, the last result of the Dict and
                         \* of the reference mapping
    list_payload,        \* the first _len bytes of the block of a shared List
    list_names,          \* what the name lst is bound to in each process: the
                         \* List, or a plain list with its elements
    list_hist,           \* history: the operations made, and the reference
                         \* list (one Python list under all the names)
    mask_args,           \* the arguments hi, lo of a genmask call
    mask_result          \* what genmask returned, NoMask before the call

mvars ==
    <<kind, count_, data, lock, exemplars, pc, loc, calls, tickets, nsample>>
hvars == <<base, flen, hlock, hpc, hloc, blocks, raised, nmalloc>>
dvars == <<origin, maps, written, heaps>>
avars == <<impl, ctype, cell, clock, apc, aloc, iter>>
\* the state outside the sampling protocol and malloc
cvars == <<counter_lock, counter_exemplar, counter_hist>>
lvars ==
    <<labeled_metrics, labeled_shared_lock, labeled_cache, labeled_lock,
      lpc, lloc, labeled_hist>>
evars == <<enum_states, enum_value, enum_loc, enum_hist>>
fvars == <<factory_buckets, factory_result>>
gvars == <<gauge_scopes>>
tvars == <<object_header, object_payload, dict_model, dict_hist>>
svars == <<list_payload, list_names, list_hist>>
kvars == <<mask_args, mask_result>>
yvars == <<evars, fvars, gvars, tvars, svars, kvars>>
xvars == <<dvars, avars, cvars, lvars, yvars>>
\* the state outside Block.deref, outside the atomic cells, and outside
\* the Counter and its atomic cell
odvars == <<mvars, hvars, avars, cvars, lvars, yvars>>
oavars == <<mvars, hvars, dvars, cvars, lvars, yvars>>
ocvars == <<mvars, hvars, dvars, lvars, yvars>>
olvars == <<mvars, hvars, dvars, avars, cvars, yvars>>
\* the state of the sampling protocol, the heap, the cells, the Counter and
\* the LabeledCollector together
zvars == <<mvars, hvars, dvars, avars, cvars, lvars>>
oevars == <<zvars, fvars, gvars, tvars, svars, kvars>>
ofvars == <<zvars, evars, gvars, tvars, svars, kvars>>
\* the state outside the Gauge and its atomic cell
ogvars == <<mvars, hvars, dvars, cvars, lvars, evars, fvars, tvars, svars, kvars>>
otvars == <<zvars, evars, fvars, gvars, svars, kvars>>
osvars == <<zvars, evars, fvars, gvars, tvars, kvars>>
okvars == <<zvars, evars, fvars, gvars, tvars, svars>>
vars == <<mvars, hvars, xvars>>

----------------------------------------------------------------------------
(* Bounds of the model.                                                    *)

\* processes sharing the metric
NProcs == 2
\* observe calls made in one behaviour
MaxObserve == 2
\* _sample calls made in one behaviour
MaxSample == 2
\* width in bits of the unsigned counter cells (64 in the program)
Width == 4
\* Heap.malloc calls made in one behaviour
MaxMalloc == 3
\* bytes written through dereferenced blocks in one behaviour
MaxWrite == 1
\* iterations of a worker's loop, and calls a process makes on a cell
MaxLoop == 2
\* Counter.inc calls made in one behaviour
MaxInc == 2
\* LabeledCollector.labels and collect calls made in one behaviour
MaxLabels == 3
\* Enum.state calls made in one behaviour
MaxState == 2
\* the longest buckets= argument of a Histogram constructor
MaxBuckets == 3
\* Gauge.track_inprogress scopes entered in one behaviour
MaxScope == 3
\* mutations of the shared Dict made in one behaviour
MaxMutate == 3
\* pickles holding Blocks of the heap that one process may load
MaxUnpickle == 2
\* the highest bit number passed to genmask
MaxBit == 13

Procs == 1..NProcs
\* the holder of a lock that nobody holds
NoProc == 0
\* Python's None, as an exemplar argument
None == "None"
\* Python's None, as an exemplar slot
NoExemplar == <<>>
\* observed amounts (modelled as integers)
Amounts == {1, 2}
\* exemplar arguments of Histogram.observe: absent, or a label set
ExemplarArgs == {None, "trace"}

----------------------------------------------------------------------------
(* Integer helpers: Python's operators on unbounded integers.              *)

RECURSIVE Pow2(_)
Pow2(n) == IF n = 0 THEN 1 ELSE 2 * Pow2(n - 1)

\* x >> n on a Python int: floor division by 2^n, also for negative x
Shr(x, n) == x \div Pow2(n)

\* ~x on a Python int
Invert(x) == -x - 1

\* x << n on a Python int
Shl(x, n) == x * Pow2(n)

\* a & b on Python ints: a negative int has infinitely many leading ones
\* (-1 is all ones), \div rounds down and % 2 is the lowest bit
RECURSIVE BitAnd(_, _)
BitAnd(a, b) ==
    IF a = 0 \/ b = 0 THEN 0
    ELSE IF a = -1 THEN b
    ELSE IF b = -1 THEN a
    ELSE (a % 2) * (b % 2) + 2 * BitAnd(a \div 2, b \div 2)

\* a | b for non-negative a, b
RECURSIVE BitOr(_, _)
BitOr(a, b) ==
    IF a = 0 THEN b
    ELSE IF b = 0 THEN a
    ELSE (IF a % 2 = 1 \/ b % 2 = 1 THEN 1 ELSE 0) + 2 * BitOr(a \div 2, b \div 2)

\* (mutant) the bit hi is left out
genmask_below_hi(hi, lo) == BitAnd(Shl(-1, lo), Invert(Shl(-1, hi)))

\* util.genmask: (-1 << lo) & ~(-1 << (hi + 1))
genmask(hi, lo) == BitAnd(Shl(-1, lo), Invert(Shl(-1, hi + 1)))

\* list.__getitem__ with an int key on a list of n elements
PyIndex(k, n) == IF k < 0 THEN n + k ELSE k

----------------------------------------------------------------------------
(* The unsigned atomic cell (AtomicUInt64, here Width bits wide).          *)

Modulus == Pow2(Width)
TopShift == Width - 1
TopBit == Pow2(TopShift)

\* storing into the c_uint64 behind the cell keeps the low bits
Store(v) == v % Modulus

\* (mutant) add returns the value after the addition
AtomicAdd_new(old, amount, raise_on_overflow) ==
    [value  |-> (old + amount) % Modulus,
     ret    |-> (old + amount) % Modulus,
     raised |-> raise_on_overflow /\ (old + amount) % Modulus # old + amount]

\* _Locking.add: the new value of the cell, the value returned and whether
\* OverflowError is raised
AtomicAdd(old, amount, raise_on_overflow) ==
    [value  |-> Store(old + amount),
     ret    |-> old,
     raised |-> raise_on_overflow /\ Store(old + amount) # old + amount]

----------------------------------------------------------------------------
(* Histogram thresholds.                                                   *)

\* float('inf'), appended as the last threshold by _HistogramFactory
Inf == 99
thresholds == <<1, Inf>>
bucket_count == Len(thresholds)
Buckets == 1..bucket_count

\* (mutant) bisect.bisect_right: one past the thresholds that are <= amount
bisect_right(a, x) == Cardinality({k \in 1..Len(a) : a[k] <= x}) + 1

\* bisect.bisect_left(thresholds, amount), as a 1-based position: one past
\* the thresholds that are < amount
bisect_left(a, x) == Cardinality({k \in 1..Len(a) : a[k] < x}) + 1

\* (mutant) the bucket counts are emitted as they are, not accumulated
accumulate_none(s) == s

\* itertools.accumulate(buckets)
RECURSIVE SumTo(_, _)
SumTo(s, n) == IF n = 0 THEN 0 ELSE s[n] + SumTo(s, n - 1)
accumulate(s) == [k \in 1..Len(s) |-> SumTo(s, k)]

ZeroBuckets == [k \in Buckets |-> 0]
ZeroData == [sum |-> 0, count |-> 0, buckets |-> ZeroBuckets]

----------------------------------------------------------------------------
(* Process-local state.                                                    *)

NoLocals ==
    [amount |-> 0, exemplar |-> None, i |-> 0, d |-> 0,
     count |-> 0, sum |-> 0, buckets |-> ZeroBuckets, exs |-> <<>>,
     hot |-> 0, cold |-> 0, j |-> 0,
     quiet |-> FALSE, expect |-> <<0, 0>>]

ObservePcs == {"o_ticket", "o_bucket", "o_sum", "o_count", "o_lock", "o_exemplar"}
\* an observe that still has a data add to perform
AddingPcs == {"o_ticket", "o_bucket", "o_sum", "o_count"}
SamplePcs == {"s_lock", "s_flip", "s_check", "s_rdb", "s_rdsum",
              "s_rdex", "s_addb", "s_addsum", "s_addcount", "s_zerob",
              "s_zerosum", "s_zerocount", "s_unlock", "s_emit"}

MetricInit ==
    /\ kind \in {"summary", "histogram"}
    /\ count_ = 0
    /\ data = [b \in 0..1 |-> ZeroData]
    /\ lock = NoProc
    /\ exemplars = [k \in Buckets |-> NoExemplar]
    /\ pc = [p \in Procs |-> "idle"]
    /\ loc = [p \in Procs |-> NoLocals]
    /\ calls = <<0, 0>>
    /\ tickets = <<0, 0>>
    /\ nsample = 0

Goto(p, l) == pc' = [pc EXCEPT ![p] = l]
SetLoc(p, r) == loc' = [loc EXCEPT ![p] = r]
\* the call returns to its caller
Return(p) ==
    /\ Goto(p, "idle")
    /\ SetLoc(p, NoLocals)
\* an exception leaves the call: a held _lock is released by its with block
Raise(p) ==
    /\ Return(p)
    /\ lock' = IF lock = p THEN NoProc ELSE lock

\* history kept at the start of an observe call: a _sample in progress no
\* longer runs with every observe completed
NoteObserve(p, r) ==
    /\ loc' = [q \in Procs |->
                 IF q = p THEN r
                 ELSE IF pc[q] \in SamplePcs THEN [loc[q] EXCEPT !.quiet = FALSE]
                 ELSE loc[q]]
    /\ calls' = <<calls[1] + 1, calls[2] + r.amount>>

----------------------------------------------------------------------------
(* Summary.observe                                                         *)

Summary_observe(p, amount) ==
    /\ kind = "summary"
    /\ pc[p] = "idle"
    /\ calls[1] < MaxObserve
    /\ NoteObserve(p, [NoLocals EXCEPT !.amount = amount])
    /\ Goto(p, "o_ticket")
    /\ UNCHANGED <<xvars, hvars, kind, count_, data, lock, exemplars, tickets, nsample>>

\* self._data[self._count.add(1) >> 63]
Summary_observe_ticket(p) ==
    /\ kind = "summary"
    /\ pc[p] = "o_ticket"
    /\ LET r == AtomicAdd(count_, 1, TRUE) IN
        /\ count_' = r.value
        /\ IF r.raised
           THEN Raise(p) /\ UNCHANGED tickets
           ELSE /\ SetLoc(p, [loc[p] EXCEPT !.d = Shr(r.ret, TopShift)])
                /\ Goto(p, "o_sum")
                /\ tickets' = <<tickets[1] + 1, tickets[2] + loc[p].amount>>
                /\ UNCHANGED lock
    /\ UNCHANGED <<xvars, hvars, kind, data, exemplars, calls, nsample>>

\* data.sum.add(amount)
Summary_observe_sum(p) ==
    /\ kind = "summary"
    /\ pc[p] = "o_sum"
    /\ data' = [data EXCEPT ![loc[p].d].sum = @ + loc[p].amount]
    /\ Goto(p, "o_count")
    /\ UNCHANGED <<xvars, hvars, kind, count_, lock, exemplars, loc, calls, tickets, nsample>>

\* data.count.add(1)
Summary_observe_count(p) ==
    /\ kind = "summary"
    /\ pc[p] = "o_count"
    /\ LET r == AtomicAdd(data[loc[p].d].count, 1, TRUE) IN
        /\ data' = [data EXCEPT ![loc[p].d].count = r.value]
        /\ Return(p)
    /\ UNCHANGED <<xvars, hvars, kind, count_, lock, exemplars, calls, tickets, nsample>>

----------------------------------------------------------------------------
(* Summary._sample                                                         *)

Summary_sample(p) ==
    /\ kind = "summary"
    /\ pc[p] = "idle"
    /\ nsample < MaxSample
    /\ nsample' = nsample + 1
    /\ SetLoc(p, [NoLocals EXCEPT !.quiet = \A q \in Procs : pc[q] \notin ObservePcs])
    /\ Goto(p, "s_lock")
    /\ UNCHANGED <<xvars, hvars, kind, count_, data, lock, exemplars, calls, tickets>>

\* with self._lock:
Summary_sample_lock(p) ==
    /\ kind = "summary"
    /\ pc[p] = "s_lock"
    /\ lock = NoProc
    /\ lock' = p
    /\ Goto(p, "s_flip")
    /\ UNCHANGED <<xvars, hvars, kind, count_, data, exemplars, loc, calls, tickets, nsample>>

\* count = self._count.add(1 << 63, raise_on_overflow=False); hot, cold;
\* count &= genmask(62, 0)
Summary_sample_flip(p) ==
    /\ kind = "summary"
    /\ pc[p] = "s_flip"
    /\ LET r == AtomicAdd(count_, TopBit, FALSE)
           count == r.ret
       IN
        /\ count_' = r.value
        /\ SetLoc(p, [loc[p] EXCEPT
                        !.hot = PyIndex(Shr(Invert(count), TopShift), 2),
                        !.cold = PyIndex(Shr(count, TopShift), 2),
                        !.count = BitAnd(count, genmask(Width - 2, 0)),
                        !.expect = tickets])
    /\ Goto(p, "s_check")
    /\ UNCHANGED <<xvars, hvars, kind, data, lock, exemplars, calls, tickets, nsample>>

\* (mutant) the reader does not wait for the cold buffer to quiesce
Summary_sample_check_nowait(p) ==
    /\ kind = "summary"
    /\ pc[p] = "s_check"
    /\ Goto(p, "s_rdsum")
    /\ UNCHANGED <<xvars, hvars, kind, count_, data, lock, exemplars, loc, calls, tickets, nsample>>

\* while cold.count.get() != count: time.sleep(0)
\* (one evaluation of the condition; after the sleep the loop is back here)
Summary_sample_check(p) ==
    /\ kind = "summary"
    /\ pc[p] = "s_check"
    /\ IF data[loc[p].cold].count # loc[p].count
       THEN Goto(p, "s_check")
       ELSE Goto(p, "s_rdsum")
    /\ UNCHANGED <<xvars, hvars, kind, count_, data, lock, exemplars, loc, calls, tickets, nsample>>

\* (mutant) the reader takes the sum from the hot buffer
Summary_sample_read_sum_hot(p) ==
    /\ kind = "summary"
    /\ pc[p] = "s_rdsum"
    /\ SetLoc(p, [loc[p] EXCEPT !.sum = data[loc[p].hot].sum])
    /\ Goto(p, "s_addcount")
    /\ UNCHANGED <<xvars, hvars, kind, count_, data, lock, exemplars, calls, tickets, nsample>>

\* sum = cold.sum.get()
Summary_sample_read_sum(p) ==
    /\ kind = "summary"
    /\ pc[p] = "s_rdsum"
    /\ SetLoc(p, [loc[p] EXCEPT !.sum = data[loc[p].cold].sum])
    /\ Goto(p, "s_addcount")
    /\ UNCHANGED <<xvars, hvars, kind, count_, data, lock, exemplars, calls, tickets, nsample>>

\* hot.count.add(count)
Summary_sample_add_count(p) ==
    /\ kind = "summary"
    /\ pc[p] = "s_addcount"
    /\ LET r == AtomicAdd(data[loc[p].hot].count, loc[p].count, TRUE) IN
        /\ data' = [data EXCEPT ![loc[p].hot].count = r.value]
        /\ IF r.raised
           THEN Raise(p)
           ELSE Goto(p, "s_addsum") /\ UNCHANGED <<loc, lock>>
    /\ UNCHANGED <<xvars, hvars, kind, count_, exemplars, calls, tickets, nsample>>

\* (mutant) the cold sum is not merged into the hot buffer
Summary_sample_add_sum_dropped(p) ==
    /\ kind = "summary"
    /\ pc[p] = "s_addsum"
    /\ Goto(p, "s_zerocount")
    /\ UNCHANGED <<xvars, hvars, kind, count_, data, lock, exemplars, loc, calls, tickets, nsample>>

\* hot.sum.add(sum)
Summary_sample_add_sum(p) ==
    /\ kind = "summary"
    /\ pc[p] = "s_addsum"
    /\ data' = [data EXCEPT ![loc[p].hot].sum = @ + loc[p].sum]
    /\ Goto(p, "s_zerocount")
    /\ UNCHANGED <<xvars, hvars, kind, count_, lock, exemplars, loc, calls, tickets, nsample>>

\* cold.count.set(0)
Summary_sample_zero_count(p) ==
    /\ kind = "summary"
    /\ pc[p] = "s_zerocount"
    /\ data' = [data EXCEPT ![loc[p].cold].count = 0]
    /\ Goto(p, "s_zerosum")
    /\ UNCHANGED <<xvars, hvars, kind, count_, lock, exemplars, loc, calls, tickets, nsample>>

\* cold.sum.set(0)
Summary_sample_zero_sum(p) ==
    /\ kind = "summary"
    /\ pc[p] = "s_zerosum"
    /\ data' = [data EXCEPT ![loc[p].cold].sum = 0]
    /\ Goto(p, "s_unlock")
    /\ UNCHANGED <<xvars, hvars, kind, count_, lock, exemplars, loc, calls, tickets, nsample>>

\* the end of the with block
Summary_sample_unlock(p) ==
    /\ kind = "summary"
    /\ pc[p] = "s_unlock"
    /\ lock' = NoProc
    /\ Goto(p, "s_emit")
    /\ UNCHANGED <<xvars, hvars, kind, count_, data, exemplars, loc, calls, tickets, nsample>>

\* the samples handed to add_sample: ('_count', count), ('_sum', sum)
Summary_samples(p) ==
    [count |-> loc[p].count, sum |-> loc[p].sum]

\* add_sample('_count', count); add_sample('_sum', sum); ... and return
Summary_sample_emit(p) ==
    /\ kind = "summary"
    /\ pc[p] = "s_emit"
    /\ Return(p)
    /\ UNCHANGED <<xvars, hvars, kind, count_, data, lock, exemplars, calls, tickets, nsample>>

----------------------------------------------------------------------------
(* _Histogram.observe                                                      *)

\* an exemplar that fails _validate_exemplar raises before anything else;
\* the arguments drawn here are valid.  i = bisect.bisect_left(...)
Histogram_observe(p, amount, exemplar) ==
    /\ kind = "histogram"
    /\ pc[p] = "idle"
    /\ calls[1] < MaxObserve
    /\ NoteObserve(p, [NoLocals EXCEPT !.amount = amount,
                                       !.exemplar = exemplar,
                                       !.i = bisect_left(thresholds, amount)])
    /\ Goto(p, "o_ticket")
    /\ UNCHANGED <<xvars, hvars, kind, count_, data, lock, exemplars, tickets, nsample>>

\* data = self._data[self._count.add(1) >> 63]
Histogram_observe_ticket(p) ==
    /\ kind = "histogram"
    /\ pc[p] = "o_ticket"
    /\ LET r == AtomicAdd(count_, 1, TRUE) IN
        /\ count_' = r.value
        /\ IF r.raised
           THEN Raise(p) /\ UNCHANGED tickets
           ELSE /\ SetLoc(p, [loc[p] EXCEPT !.d = Shr(r.ret, TopShift)])
                /\ Goto(p, "o_bucket")
                /\ tickets' = <<tickets[1] + 1, tickets[2] + loc[p].amount>>
                /\ UNCHANGED lock
    /\ UNCHANGED <<xvars, hvars, kind, data, exemplars, calls, nsample>>

\* data.buckets[i].add(1)
Histogram_observe_bucket(p) ==
    /\ kind = "histogram"
    /\ pc[p] = "o_bucket"
    /\ LET r == AtomicAdd(data[loc[p].d].buckets[loc[p].i], 1, TRUE) IN
        /\ data' = [data EXCEPT ![loc[p].d].buckets[loc[p].i] = r.value]
        /\ IF r.raised
           THEN Raise(p)
           ELSE Goto(p, "o_sum") /\ UNCHANGED <<loc, lock>>
    /\ UNCHANGED <<xvars, hvars, kind, count_, exemplars, calls, tickets, nsample>>

\* (mutant) the data adds are made with the sample lock held
Histogram_observe_sum_locked(p) ==
    /\ kind = "histogram"
    /\ pc[p] = "o_sum"
    /\ lock = NoProc
    /\ data' = [data EXCEPT ![loc[p].d].sum = @ + loc[p].amount]
    /\ Goto(p, "o_count")
    /\ UNCHANGED <<xvars, hvars, kind, count_, lock, exemplars, loc, calls, tickets, nsample>>

\* data.sum.add(amount)
Histogram_observe_sum(p) ==
    /\ kind = "histogram"
    /\ pc[p] = "o_sum"
    /\ data' = [data EXCEPT ![loc[p].d].sum = @ + loc[p].amount]
    /\ Goto(p, "o_count")
    /\ UNCHANGED <<xvars, hvars, kind, count_, lock, exemplars, loc, calls, tickets, nsample>>

\* (mutant) observe takes the sample lock whether or not it has an exemplar
Histogram_observe_count_locks(p) ==
    /\ kind = "histogram"
    /\ pc[p] = "o_count"
    /\ data' = [data EXCEPT ![loc[p].d].count = (@ + 1) % Modulus]
    /\ Goto(p, "o_lock")
    /\ UNCHANGED <<xvars, hvars, kind, count_, lock, exemplars, loc, calls, tickets, nsample>>

\* data.count.add(1); if exemplar:
Histogram_observe_count(p) ==
    /\ kind = "histogram"
    /\ pc[p] = "o_count"
    /\ LET r == AtomicAdd(data[loc[p].d].count, 1, TRUE) IN
        /\ data' = [data EXCEPT ![loc[p].d].count = r.value]
        /\ IF r.raised
           THEN Raise(p)
           ELSE IF loc[p].exemplar # None
           THEN Goto(p, "o_lock") /\ UNCHANGED <<loc, lock>>
           ELSE Return(p) /\ UNCHANGED lock
    /\ UNCHANGED <<xvars, hvars, kind, count_, exemplars, calls, tickets, nsample>>

\* with self._lock:
Histogram_observe_lock(p) ==
    /\ kind = "histogram"
    /\ pc[p] = "o_lock"
    /\ lock = NoProc
    /\ lock' = p
    /\ Goto(p, "o_exemplar")
    /\ UNCHANGED <<xvars, hvars, kind, count_, data, exemplars, loc, calls, tickets, nsample>>

\* self._exemplars[i] = (exemplar, amount, time.time()), and the end of the
\* with block (the wall-clock timestamp is left out)
Histogram_observe_exemplar(p) ==
    /\ kind = "histogram"
    /\ pc[p] = "o_exemplar"
    /\ exemplars' = [exemplars EXCEPT ![loc[p].i] = <<loc[p].exemplar, loc[p].amount>>]
    /\ lock' = NoProc
    /\ Return(p)
    /\ UNCHANGED <<xvars, hvars, kind, count_, data, calls, tickets, nsample>>

----------------------------------------------------------------------------
(* _Histogram._sample                                                      *)

Histogram_sample(p) ==
    /\ kind = "histogram"
    /\ pc[p] = "idle"
    /\ nsample < MaxSample
    /\ nsample' = nsample + 1
    /\ SetLoc(p, [NoLocals EXCEPT !.quiet = \A q \in Procs : pc[q] \notin ObservePcs])
    /\ Goto(p, "s_lock")
    /\ UNCHANGED <<xvars, hvars, kind, count_, data, lock, exemplars, calls, tickets>>

\* with self._lock:
Histogram_sample_lock(p) ==
    /\ kind = "histogram"
    /\ pc[p] = "s_lock"
    /\ lock = NoProc
    /\ lock' = p
    /\ Goto(p, "s_flip")
    /\ UNCHANGED <<xvars, hvars, kind, count_, data, exemplars, loc, calls, tickets, nsample>>

\* count = self._count.add(1 << 63, raise_on_overflow=False); hot, cold;
\* count &= genmask(62, 0)
Histogram_sample_flip(p) ==
    /\ kind = "histogram"
    /\ pc[p] = "s_flip"
    /\ LET r == AtomicAdd(count_, TopBit, FALSE)
           count == r.ret
       IN
        /\ count_' = r.value
        /\ SetLoc(p, [loc[p] EXCEPT
                        !.hot = PyIndex(Shr(Invert(count), TopShift), 2),
                        !.cold = PyIndex(Shr(count, TopShift), 2),
                        !.count = BitAnd(count, genmask(Width - 2, 0)),
                        !.expect = tickets])
    /\ Goto(p, "s_check")
    /\ UNCHANGED <<xvars, hvars, kind, data, lock, exemplars, calls, tickets, nsample>>

\* (mutant) the reader gives up waiting and goes on
Histogram_sample_check_giveup(p) ==
    /\ kind = "histogram"
    /\ pc[p] = "s_check"
    /\ Goto(p, "s_rdb") /\ SetLoc(p, [loc[p] EXCEPT !.j = 1])
    /\ UNCHANGED <<xvars, hvars, kind, count_, data, lock, exemplars, calls, tickets, nsample>>

\* while cold.count.get() != count: time.sleep(0)
\* (one evaluation of the condition; after the sleep the loop is back here)
Histogram_sample_check(p) ==
    /\ kind = "histogram"
    /\ pc[p] = "s_check"
    /\ IF data[loc[p].cold].count # loc[p].count
       THEN Goto(p, "s_check") /\ UNCHANGED loc
       ELSE Goto(p, "s_rdb") /\ SetLoc(p, [loc[p] EXCEPT !.j = 1])
    /\ UNCHANGED <<xvars, hvars, kind, count_, data, lock, exemplars, calls, tickets, nsample>>

\* buckets = [bucket.get() for bucket in cold.buckets], one get at a time
Histogram_sample_read_bucket(p) ==
    /\ kind = "histogram"
    /\ pc[p] = "s_rdb"
    /\ LET j == loc[p].j IN
        /\ SetLoc(p, [loc[p] EXCEPT !.buckets[j] = data[loc[p].cold].buckets[j],
                                    !.j = IF j < bucket_count THEN j + 1 ELSE 0])
        /\ Goto(p, IF j < bucket_count THEN "s_rdb" ELSE "s_rdsum")
    /\ UNCHANGED <<xvars, hvars, kind, count_, data, lock, exemplars, calls, tickets, nsample>>

\* sum = cold.sum.get()
Histogram_sample_read_sum(p) ==
    /\ kind = "histogram"
    /\ pc[p] = "s_rdsum"
    /\ SetLoc(p, [loc[p] EXCEPT !.sum = data[loc[p].cold].sum])
    /\ Goto(p, "s_rdex")
    /\ UNCHANGED <<xvars, hvars, kind, count_, data, lock, exemplars, calls, tickets, nsample>>

\* exemplars = list(self._exemplars)
Histogram_sample_read_exemplars(p) ==
    /\ kind = "histogram"
    /\ pc[p] = "s_rdex"
    /\ SetLoc(p, [loc[p] EXCEPT !.exs = exemplars, !.j = 1])
    /\ Goto(p, "s_addb")
    /\ UNCHANGED <<xvars, hvars, kind, count_, data, lock, exemplars, calls, tickets, nsample>>

\* for i, bucket in enumerate(buckets): hot.buckets[i].add(bucket)
Histogram_sample_add_bucket(p) ==
    /\ kind = "histogram"
    /\ pc[p] = "s_addb"
    /\ LET j == loc[p].j
           r == AtomicAdd(data[loc[p].hot].buckets[j], loc[p].buckets[j], TRUE)
       IN
        /\ data' = [data EXCEPT ![loc[p].hot].buckets[j] = r.value]
        /\ IF r.raised
           THEN Raise(p)
           ELSE /\ SetLoc(p, [loc[p] EXCEPT !.j = IF j < bucket_count THEN j + 1 ELSE 0])
                /\ Goto(p, IF j < bucket_count THEN "s_addb" ELSE "s_addsum")
                /\ UNCHANGED lock
    /\ UNCHANGED <<xvars, hvars, kind, count_, exemplars, calls, tickets, nsample>>

\* hot.sum.add(sum)
Histogram_sample_add_sum(p) ==
    /\ kind = "histogram"
    /\ pc[p] = "s_addsum"
    /\ data' = [data EXCEPT ![loc[p].hot].sum = @ + loc[p].sum]
    /\ Goto(p, "s_addcount")
    /\ UNCHANGED <<xvars, hvars, kind, count_, lock, exemplars, loc, calls, tickets, nsample>>

\* hot.count.add(count)
Histogram_sample_add_count(p) ==
    /\ kind = "histogram"
    /\ pc[p] = "s_addcount"
    /\ LET r == AtomicAdd(data[loc[p].hot].count, loc[p].count, TRUE) IN
        /\ data' = [data EXCEPT ![loc[p].hot].count = r.value]
        /\ IF r.raised
           THEN Raise(p)
           ELSE /\ SetLoc(p, [loc[p] EXCEPT !.j = 1])
                /\ Goto(p, "s_zerob")
                /\ UNCHANGED lock
    /\ UNCHANGED <<xvars, hvars, kind, count_, exemplars, calls, tickets, nsample>>

\* for bucket in cold.buckets: bucket.set(0)
Histogram_sample_zero_bucket(p) ==
    /\ kind = "histogram"
    /\ pc[p] = "s_zerob"
    /\ LET j == loc[p].j IN
        /\ data' = [data EXCEPT ![loc[p].cold].buckets[j] = 0]
        /\ SetLoc(p, [loc[p] EXCEPT !.j = IF j < bucket_count THEN j + 1 ELSE 0])
        /\ Goto(p, IF j < bucket_count THEN "s_zerob" ELSE "s_zerosum")
    /\ UNCHANGED <<xvars, hvars, kind, count_, lock, exemplars, calls, tickets, nsample>>

\* cold.sum.set(0)
Histogram_sample_zero_sum(p) ==
    /\ kind = "histogram"
    /\ pc[p] = "s_zerosum"
    /\ data' = [data EXCEPT ![loc[p].cold].sum = 0]
    /\ Goto(p, "s_zerocount")
    /\ UNCHANGED <<xvars, hvars, kind, count_, lock, exemplars, loc, calls, tickets, nsample>>

\* cold.count.set(0)
Histogram_sample_zero_count(p) ==
    /\ kind = "histogram"
    /\ pc[p] = "s_zerocount"
    /\ data' = [data EXCEPT ![loc[p].cold].count = 0]
    /\ Goto(p, "s_unlock")
    /\ UNCHANGED <<xvars, hvars, kind, count_, lock, exemplars, loc, calls, tickets, nsample>>

\* the end of the with block
Histogram_sample_unlock(p) ==
    /\ kind = "histogram"
    /\ pc[p] = "s_unlock"
    /\ lock' = NoProc
    /\ Goto(p, "s_emit")
    /\ UNCHANGED <<xvars, hvars, kind, count_, data, exemplars, loc, calls, tickets, nsample>>

\* the samples handed to add_sample: ('_bucket', val, le, exemplar) for val
\* in itertools.accumulate(buckets), ('_sum', sum), ('_count', count)
Histogram_samples(p) ==
    [buckets |-> accumulate(loc[p].buckets), exemplars |-> loc[p].exs,
     sum |-> loc[p].sum, count |-> loc[p].count]

\* for val, le, exemplar in zip(...): add_sample(...); ... and return
Histogram_sample_emit(p) ==
    /\ kind = "histogram"
    /\ pc[p] = "s_emit"
    /\ Return(p)
    /\ UNCHANGED <<xvars, hvars, kind, count_, data, lock, exemplars, calls, tickets, nsample>>

----------------------------------------------------------------------------
(* The metric's specification.                                             *)

Observe(p) ==
    \/ Summary_observe_ticket(p)
    \/ Summary_observe_sum(p)
    \/ Summary_observe_count(p)
    \/ Histogram_observe_ticket(p)
    \/ Histogram_observe_bucket(p)
    \/ Histogram_observe_sum(p)
    \/ Histogram_observe_count(p)
    \/ Histogram_observe_lock(p)
    \/ Histogram_observe_exemplar(p)

Sample(p) ==
    \/ Summary_sample_lock(p)
    \/ Summary_sample_flip(p)
    \/ Summary_sample_check(p)
    \/ Summary_sample_read_sum(p)
    \/ Summary_sample_add_count(p)
    \/ Summary_sample_add_sum(p)
    \/ Summary_sample_zero_count(p)
    \/ Summary_sample_zero_sum(p)
    \/ Summary_sample_unlock(p)
    \/ Summary_sample_emit(p)
    \/ Histogram_sample_lock(p)
    \/ Histogram_sample_flip(p)
    \/ Histogram_sample_check(p)
    \/ Histogram_sample_read_bucket(p)
    \/ Histogram_sample_read_sum(p)
    \/ Histogram_sample_read_exemplars(p)
    \/ Histogram_sample_add_bucket(p)
    \/ Histogram_sample_add_sum(p)
    \/ Histogram_sample_add_count(p)
    \/ Histogram_sample_zero_bucket(p)
    \/ Histogram_sample_zero_sum(p)
    \/ Histogram_sample_zero_count(p)
    \/ Histogram_sample_unlock(p)
    \/ Histogram_sample_emit(p)

Call(p) ==
    \/ \E amount \in Amounts : Summary_observe(p, amount)
    \/ \E amount \in Amounts, exemplar \in ExemplarArgs :
          Histogram_observe(p, amount, exemplar)
    \/ Summary_sample(p)
    \/ Histogram_sample(p)

----------------------------------------------------------------------------
(* The arena allocator, mpmetrics/heap.py.                                 *)

\* heap.PAGESIZE, the default map_size
PAGESIZE == 4096
map_size == PAGESIZE
\* heap.CACHELINESIZE, the default alignment of malloc
CACHELINESIZE == 64
\* _mpmetrics.Lock.size and .align (a process-shared mutex cell)
LockSize == 40
LockAlign == 8
\* ctypes.sizeof(c_size_t), ctypes.alignment(c_size_t)
Size_tSize == 8
Size_tAlign == 8

\* util._align_check: a is a power of two (raises ValueError otherwise)
RECURSIVE IsPow2(_)
IsPow2(a) == a = 1 \/ (a > 1 /\ a % 2 = 0 /\ IsPow2(a \div 2))
_align_check(a) == IsPow2(a)

\* (mutant) rounds down to a multiple of a
align_down(x, a) == (x \div a) * a

\* util.align: (x + (a - 1)) & ~(a - 1), for a power of two a
align(x, a) == ((x + (a - 1)) \div a) * a

\* Struct.size of Heap: _fields_ = { _shared_lock: Lock, _base: Size_t }
HeapSize == align(align(0, LockAlign) + LockSize, Size_tAlign) + Size_tSize

\* requested sizes: invalid, small, one that fills the first window when
\* cache-line aligned, and one larger than map_size
Sizes == {0, 1, 4032, 5000}
\* requested alignments: invalid ones (zero, negative, not a power of two),
\* 1, the default and one > map_size
Alignments == {0, -4, 3, 1, CACHELINESIZE, 8192}

NoMalloc == [size |-> 0, alignment |-> 0, req |-> 0, total |-> 0, start |-> 0]

\* Heap.__init__: one map_size window, _base just past the header
ArenaInit ==
    /\ base = HeapSize
    /\ flen = map_size
    /\ hlock = NoProc
    /\ hpc = [p \in Procs |-> "idle"]
    /\ hloc = [p \in Procs |-> NoMalloc]
    /\ blocks = <<>>
    /\ raised = <<>>
    /\ nmalloc = 0

HGoto(p, l) == hpc' = [hpc EXCEPT ![p] = l]

\* malloc leaves with an exception: its with block releases _shared_lock
HRaise(p, error) ==
    /\ HGoto(p, "idle")
    /\ hloc' = [hloc EXCEPT ![p] = NoMalloc]
    /\ raised' = <<[size |-> hloc[p].req, alignment |-> hloc[p].alignment,
                    error |-> error]>>
    /\ hlock' = IF hlock = p THEN NoProc ELSE hlock

\* (mutant) the size is not validated
Heap_malloc_any_size(p, size, alignment) ==
    /\ hpc[p] = "idle"
    /\ nmalloc < MaxMalloc
    /\ nmalloc' = nmalloc + 1
    /\ IF ~_align_check(alignment)
       THEN /\ raised' = <<[size |-> size, alignment |-> alignment,
                            error |-> "ValueError"]>>
            /\ UNCHANGED <<hpc, hloc>>
       ELSE /\ hloc' = [hloc EXCEPT ![p] =
                          [NoMalloc EXCEPT
                             !.req = size,
                             !.size = IF size > map_size THEN align(size, map_size)
                                      ELSE size,
                             !.alignment = alignment]]
            /\ HGoto(p, "m_lock")
            /\ UNCHANGED raised
    /\ UNCHANGED <<xvars, mvars, base, flen, hlock, blocks>>

\* if size <= 0: raise; elif size > map_size: size = align(size, map_size);
\* _align_check(alignment)
Heap_malloc(p, size, alignment) ==
    /\ hpc[p] = "idle"
    /\ nmalloc < MaxMalloc
    /\ nmalloc' = nmalloc + 1
    /\ IF size <= 0 \/ ~_align_check(alignment)
       THEN /\ raised' = <<[size |-> size, alignment |-> alignment,
                            error |-> "ValueError"]>>
            /\ UNCHANGED <<hpc, hloc>>
       ELSE /\ hloc' = [hloc EXCEPT ![p] =
                          [NoMalloc EXCEPT
                             !.req = size,
                             !.size = IF size > map_size THEN align(size, map_size)
                                      ELSE size,
                             !.alignment = alignment]]
            /\ HGoto(p, "m_lock")
            /\ UNCHANGED raised
    /\ UNCHANGED <<xvars, mvars, base, flen, hlock, blocks>>

\* with self._shared_lock:
Heap_malloc_lock(p) ==
    /\ hpc[p] = "m_lock"
    /\ hlock = NoProc
    /\ hlock' = p
    /\ HGoto(p, "m_align")
    /\ UNCHANGED <<xvars, mvars, base, flen, hloc, blocks, raised, nmalloc>>

\* (mutant) the block is never moved to the next map_size boundary
Heap_malloc_align_stay(p) ==
    /\ hpc[p] = "m_align"
    /\ hloc' = [hloc EXCEPT ![p].total = align(base, map_size)]
    /\ base' = align(base, hloc[p].alignment)
    /\ HGoto(p, "m_bump")
    /\ UNCHANGED <<xvars, mvars, flen, hlock, blocks, raised, nmalloc>>

\* total = align(self._base.value, self.map_size);
\* self._base.value = align(self._base.value, alignment);
\* if self._base.value + size >= total:
Heap_malloc_align(p) ==
    /\ hpc[p] = "m_align"
    /\ LET total == align(base, map_size)
           aligned == align(base, hloc[p].alignment)
       IN
        /\ hloc' = [hloc EXCEPT ![p].total = total]
        /\ base' = aligned
        /\ IF aligned + hloc[p].size >= total
           THEN HGoto(p, "m_extend")
           ELSE HGoto(p, "m_bump")
    /\ UNCHANGED <<xvars, mvars, flen, hlock, blocks, raised, nmalloc>>

\* (mutant) the block moves to the boundary but the file is not extended
Heap_malloc_extend_nofile(p) ==
    /\ hpc[p] = "m_extend"
    /\ base' = hloc[p].total
    /\ HGoto(p, "m_bump")
    /\ UNCHANGED <<xvars, mvars, flen, hlock, hloc, raised, blocks, nmalloc>>

\* os.ftruncate(self._fd, align(total + size, self.map_size));
\* self._base.value = total.  ftruncate raises OSError when the file
\* cannot be extended.
Heap_malloc_extend(p) ==
    /\ hpc[p] = "m_extend"
    /\ \/ /\ flen' = align(hloc[p].total + hloc[p].size, map_size)
          /\ base' = hloc[p].total
          /\ HGoto(p, "m_bump")
          /\ UNCHANGED <<hlock, hloc, raised>>
       \/ /\ HRaise(p, "OSError")
          /\ UNCHANGED <<flen, base>>
    /\ UNCHANGED <<xvars, mvars, blocks, nmalloc>>

\* (mutant) _base is not advanced past the block
Heap_malloc_bump_stuck(p) ==
    /\ hpc[p] = "m_bump"
    /\ hloc' = [hloc EXCEPT ![p].start = base]
    /\ HGoto(p, "m_return")
    /\ UNCHANGED <<xvars, mvars, base, flen, hlock, blocks, raised, nmalloc>>

\* start = self._base.value; self._base.value += size
Heap_malloc_bump(p) ==
    /\ hpc[p] = "m_bump"
    /\ hloc' = [hloc EXCEPT ![p].start = base]
    /\ base' = base + hloc[p].size
    /\ HGoto(p, "m_return")
    /\ UNCHANGED <<xvars, mvars, flen, hlock, blocks, raised, nmalloc>>

\* the end of the with block; return self.Block(self, start, size)
Heap_malloc_return(p) ==
    /\ hpc[p] = "m_return"
    /\ hlock' = NoProc
    /\ blocks' = Append(blocks, [start |-> hloc[p].start, size |-> hloc[p].size,
                                 req |-> hloc[p].req,
                                 alignment |-> hloc[p].alignment])
    /\ HGoto(p, "idle")
    /\ hloc' = [hloc EXCEPT ![p] = NoMalloc]
    /\ UNCHANGED <<xvars, mvars, base, flen, raised, nmalloc>>

Malloc(p) ==
    \/ \E size \in Sizes, alignment \in Alignments : Heap_malloc(p, size, alignment)
    \/ Heap_malloc_lock(p)
    \/ Heap_malloc_align(p)
    \/ Heap_malloc_extend(p)
    \/ Heap_malloc_bump(p)
    \/ Heap_malloc_return(p)

----------------------------------------------------------------------------
(* Heap.Block.deref and the per-process maps, mpmetrics/heap.py.           *)

\* an empty slot of Heap._maps (None)
NoMap == 0
\* the smaller of two integers: the clamping of a slice bound to len(map)
Min(a, b) == IF a < b THEN a ELSE b

\* Heap.__init__ / __setstate__: self._maps = [mmap.mmap(fd, map_size)]
FirstMaps == <<map_size>>

\* the process that constructs the Heap and allocates from it
Parent == 1

\* Heap.__init__ in the parent; the other processes have no Heap object yet
DerefInit ==
    /\ origin = [p \in Procs |-> IF p = Parent THEN "parent" ELSE "none"]
    /\ maps = [p \in Procs |-> IF p = Parent THEN FirstMaps ELSE <<>>]
    /\ written = {}
    /\ heaps = [p \in Procs |-> IF p = Parent THEN 1 ELSE 0]

\* (mutant) a fault maps one window whatever the size of the block
deref_one_page(M, b) ==
    LET first_page == b.start \div map_size
        last_page == (b.start + b.size - 1) \div map_size
        page_off == first_page * map_size
        off == b.start - page_off
        extended == IF Len(M) <= last_page
                    THEN M \o [k \in 1..(last_page - Len(M) + 1) |-> NoMap]
                    ELSE M
        fault == extended[first_page + 1] = NoMap
        mapped == IF fault
                  THEN [extended EXCEPT ![first_page + 1] = map_size]
                  ELSE extended
        maplen == mapped[first_page + 1]
    IN  IF fault /\ page_off + map_size > flen
        THEN [maps |-> extended, error |-> TRUE, view |-> [start |-> 0, size |-> 0]]
        ELSE [maps |-> mapped, error |-> FALSE,
              view |-> [start |-> page_off + Min(off, maplen),
                        size |-> Min(off + b.size, maplen) - Min(off, maplen)]]

\* Block.deref on the _maps list M of the calling process.  The result is
\* the new _maps, whether mmap raised (the mapping would reach past the end
\* of the file), and the returned memoryview as the file offset of its
\* first byte and its length: memoryview(map)[off:off+size] clamps both
\* bounds of the slice to len(map).
deref(M, b) ==
    LET first_page == b.start \div map_size
        last_page == (b.start + b.size - 1) \div map_size
        nr_pages == last_page - first_page + 1
        page_off == first_page * map_size
        off == b.start - page_off
        extended == IF Len(M) <= last_page
                    THEN M \o [k \in 1..(last_page - Len(M) + 1) |-> NoMap]
                    ELSE M
        fault == extended[first_page + 1] = NoMap
        mapped == IF fault
                  THEN [extended EXCEPT ![first_page + 1] = map_size * nr_pages]
                  ELSE extended
        maplen == mapped[first_page + 1]
    IN  IF fault /\ page_off + map_size * nr_pages > flen
        THEN [maps |-> extended, error |-> TRUE, view |-> [start |-> 0, size |-> 0]]
        ELSE [maps |-> mapped, error |-> FALSE,
              view |-> [start |-> page_off + Min(off, maplen),
                        size |-> Min(off + b.size, maplen) - Min(off, maplen)]]

\* os.fork(): the child inherits the parent's Heap object with its _maps
Fork(p) ==
    /\ origin[p] = "none"
    /\ origin' = [origin EXCEPT ![p] = "fork"]
    /\ maps' = [maps EXCEPT ![p] = maps[Parent]]
    /\ heaps' = [heaps EXCEPT ![p] = heaps[Parent]]
    /\ UNCHANGED <<odvars, written>>

\* Heap.__setstate__, run when process p loads a pickle that holds one or
\* more Blocks (or Boxes) of the heap: the pickle names the Heap once (the
\* later Blocks of the same pickle refer to it through the pickle memo), and
\* every load builds a new Heap object that maps the first window only.
\* maps[p] is the _maps of the Heap object that p got last.
Heap_setstate(p) ==
    /\ origin[p] \in {"none", "pickle"}
    /\ heaps[p] < MaxUnpickle
    /\ origin' = [origin EXCEPT ![p] = "pickle"]
    /\ maps' = [maps EXCEPT ![p] = FirstMaps]
    /\ heaps' = [heaps EXCEPT ![p] = @ + 1]
    /\ UNCHANGED <<odvars, written>>

\* block.deref() in process p, for the i-th block returned by malloc
Block_deref(p, i) ==
    /\ origin[p] # "none"
    /\ i \in 1..Len(blocks)
    /\ maps' = [maps EXCEPT ![p] = deref(maps[p], blocks[i]).maps]
    /\ UNCHANGED <<odvars, origin, written, heaps>>

\* block.deref()[k] = 1 in process p (heap_test.set_pre): an index outside
\* the returned view raises IndexError and writes nothing
Block_write(p, i, k) ==
    /\ origin[p] # "none"
    /\ i \in 1..Len(blocks)
    /\ Cardinality(written) < MaxWrite
    /\ LET r == deref(maps[p], blocks[i])
       IN  /\ maps' = [maps EXCEPT ![p] = r.maps]
           /\ written' = IF ~r.error /\ k < r.view.size
                         THEN written \cup {<<r.view.start + k, i>>}
                         ELSE written
    /\ UNCHANGED <<odvars, origin, heaps>>

\* heap.malloc(size) in the parent, as heap_test calls it: a valid size,
\* the default alignment, and a file that can be extended
Parent_malloc(p) ==
    /\ p = Parent
    /\ Malloc(p)
    /\ raised' = <<>>
    /\ hpc'[p] = "m_lock" => hloc'[p].alignment = CACHELINESIZE

\* the parent allocates; every process holding the heap dereferences and
\* writes the first or the last byte of a block
Deref(p) ==
    \/ Parent_malloc(p)
    \/ Fork(p)
    \/ Heap_setstate(p)
    \/ \E i \in 1..Len(blocks) : Block_deref(p, i)
    \/ \E i \in 1..Len(blocks) : \E k \in {0, blocks[i].size - 1} : Block_write(p, i, k)

----------------------------------------------------------------------------
(* The 64-bit atomic cells, mpmetrics/atomic.py.  The cells are Width bits *)
(* wide in the model.                                                      *)

\* the workers of a ParallelLoop, and the process that runs check and final
Workers == Procs
Observer == NProcs + 1
AProcs == Procs \cup {Observer}

\* the cells of atomic_test.test_ordering, Counter._total and Gauge._value
Cells == {"x", "y", "_total", "_value"}
CTypes == {"Int64", "UInt64"}
\* AtomicUInt64 = _mpmetrics.AtomicUInt64 or LockingUInt64
Impls == {"native", "locking"}

\* the range of each type: Int64 is two's complement
ctype_min(t) == IF t = "Int64" THEN 0 - (Modulus \div 2) ELSE 0
ctype_max(t) == IF t = "Int64" THEN (Modulus \div 2) - 1 ELSE Modulus - 1

\* ctypes: self._value.value = v keeps the low bits of v, without a check;
\* a c_double keeps a Python float as it is (the floats of the model are
\* small whole numbers)
ctypes_store(t, v) ==
    IF t = "Double" THEN v
    ELSE IF t = "Int64"
    THEN ((v + (Modulus \div 2)) % Modulus) - (Modulus \div 2)
    ELSE v % Modulus

NoCall ==
    [cell |-> "x", amount |-> 0, raise |-> FALSE, next |-> "idle",
     fail |-> "idle", err |-> FALSE, dst |-> "x", x |-> 0, y |-> 0,
     exemplar |-> None, timestamp |-> 0, labels |-> "", floor |-> 0,
     quiet |-> FALSE]

\* the cells after Box[Atomic...](heap): zero, unlocked, nobody in a call
CellsInit ==
    /\ impl \in Impls
    /\ ctype \in CTypes
    /\ cell = [c \in Cells |-> 0]
    /\ clock = [c \in Cells |-> NoProc]
    /\ aloc = [p \in AProcs |-> NoCall]
    /\ iter = [p \in AProcs |-> 0]

AGoto(p, l) == apc' = [apc EXCEPT ![p] = l]

\* with self._lock: (the fallback only; a native cell has no lock)
Acquire(p, c) ==
    /\ impl = "locking" => clock[c] = NoProc
    /\ clock' = IF impl = "locking" THEN [clock EXCEPT ![c] = p] ELSE clock

\* the end of the with block
Release(p, c) ==
    clock' = IF impl = "locking" THEN [clock EXCEPT ![c] = NoProc] ELSE clock

\* c.add(amount, raise_on_overflow) is called by p, which continues at
\* next when it returns and at fail when it raises; the fallback enters
\* its with block
Atomic_add(p, c, amount, raise_on_overflow, next, fail) ==
    /\ Acquire(p, c)
    /\ aloc' = [aloc EXCEPT ![p].cell = c, ![p].amount = amount,
                            ![p].raise = raise_on_overflow,
                            ![p].next = next, ![p].fail = fail,
                            ![p].err = FALSE]
    /\ AGoto(p, "add_body")
    /\ UNCHANGED <<impl, ctype, cell>>

\* _Locking.add, the body of the with block: old = self._value.value;
\* self._value.value = old + amount; if raise_on_overflow and
\* self._value.value != old + amount: raise OverflowError; return old
Locking_add_body(p) ==
    /\ apc[p] = "add_body"
    /\ impl = "locking"
    /\ LET c == aloc[p].cell
           old == cell[c]
           stored == ctypes_store(ctype, old + aloc[p].amount)
           err == aloc[p].raise /\ stored # old + aloc[p].amount
       IN  /\ cell' = [cell EXCEPT ![c] = stored]
           /\ Release(p, c)
           /\ aloc' = [aloc EXCEPT ![p].err = err]
           /\ AGoto(p, IF err THEN aloc[p].fail ELSE aloc[p].next)
    /\ UNCHANGED <<oavars, impl, ctype, iter>>

\* the add of a native cell: one atomic step; on overflow with
\* raise_on_overflow the cell keeps its value and OverflowError is raised
Native_add_body(p) ==
    /\ apc[p] = "add_body"
    /\ impl = "native"
    /\ LET c == aloc[p].cell
           old == cell[c]
           stored == ctypes_store(ctype, old + aloc[p].amount)
           err == aloc[p].raise /\ stored # old + aloc[p].amount
       IN  /\ cell' = [cell EXCEPT ![c] = IF err THEN old ELSE stored]
           /\ aloc' = [aloc EXCEPT ![p].err = err]
           /\ AGoto(p, IF err THEN aloc[p].fail ELSE aloc[p].next)
    /\ UNCHANGED <<oavars, impl, ctype, clock, iter>>

\* dst = c.get() is called by p, which continues at next
Atomic_get(p, c, dst, next) ==
    /\ Acquire(p, c)
    /\ aloc' = [aloc EXCEPT ![p].cell = c, ![p].next = next,
                            ![p].err = FALSE, ![p].dst = dst]
    /\ AGoto(p, "get_body")
    /\ UNCHANGED <<impl, ctype, cell>>

\* _Locking.get: return self._value.value (an atomic load of a native cell)
Atomic_get_body(p) ==
    /\ apc[p] = "get_body"
    /\ aloc' = [aloc EXCEPT ![p][aloc[p].dst] = cell[aloc[p].cell]]
    /\ Release(p, aloc[p].cell)
    /\ AGoto(p, aloc[p].next)
    /\ UNCHANGED <<oavars, impl, ctype, cell, iter>>

\* c.set(value) is called by p, which continues at next
Atomic_set(p, c, value, next) ==
    /\ Acquire(p, c)
    /\ aloc' = [aloc EXCEPT ![p].cell = c, ![p].amount = value,
                            ![p].next = next, ![p].err = FALSE]
    /\ AGoto(p, "set_body")
    /\ UNCHANGED <<impl, ctype, cell>>

\* _Locking.set: self._value.value = value
Atomic_set_body(p) ==
    /\ apc[p] = "set_body"
    /\ cell' = [cell EXCEPT ![aloc[p].cell] = ctypes_store(ctype, aloc[p].amount)]
    /\ Release(p, aloc[p].cell)
    /\ AGoto(p, aloc[p].next)
    /\ UNCHANGED <<oavars, impl, ctype, aloc, iter>>

\* the steps inside the atomic calls
Atomic(p) ==
    \/ Locking_add_body(p)
    \/ Native_add_body(p)
    \/ Atomic_get_body(p)

\* the amounts added in atomic_test.test_iadd / test_uadd: small ones, and
\* the largest value of the type
AddAmounts == {1, -1, ctype_max(ctype)}

\* atomic_test.test_iset / test_iadd / test_uadd: a process calls set, add
\* or get on the cell x; an OverflowError is caught by the caller
Cell_call(p) ==
    /\ apc[p] = "idle"
    /\ iter[p] < MaxLoop
    /\ iter' = [iter EXCEPT ![p] = @ + 1]
    /\ \/ \E amount \in AddAmounts, r \in BOOLEAN :
            Atomic_add(p, "x", amount, r, "idle", "idle")
       \/ Atomic_get(p, "x", "x", "idle")
       \/ \E value \in {ctype_min(ctype), ctype_max(ctype)} :
            Atomic_set(p, "x", value, "idle")
    /\ UNCHANGED oavars

\* (mutant) the worker adds to y first
Worker_loop_y_first(p) ==
    /\ apc[p] = "loop"
    /\ IF iter[p] < MaxLoop
       THEN /\ iter' = [iter EXCEPT ![p] = @ + 1]
            /\ Atomic_add(p, "y", 1, TRUE, "loop_y", "dead")
       ELSE /\ AGoto(p, "done")
            /\ UNCHANGED <<impl, ctype, cell, clock, aloc, iter>>
    /\ UNCHANGED oavars

\* ParallelLoop.target with test_ordering's loop: for i in range(count):
\* self.x.add(1); self.y.add(1)
Worker_loop(p) ==
    /\ apc[p] = "loop"
    /\ IF iter[p] < MaxLoop
       THEN /\ iter' = [iter EXCEPT ![p] = @ + 1]
            /\ Atomic_add(p, "x", 1, TRUE, "loop_y", "dead")
       ELSE /\ AGoto(p, "done")
            /\ UNCHANGED <<impl, ctype, cell, clock, aloc, iter>>
    /\ UNCHANGED oavars

Worker_loop_y(p) ==
    /\ apc[p] = "loop_y"
    /\ Atomic_add(p, "y", 1, TRUE, "loop", "dead")
    /\ UNCHANGED <<oavars, iter>>

\* p.is_alive()
Alive(p) == apc[p] \notin {"done", "dead"}

\* ParallelLoop.run: while any(p.is_alive() for p in procs): self.check();
\* then self.final().  check begins with y = self.y.get()
Observer_check(p) ==
    /\ apc[p] = "check"
    /\ IF \E w \in Workers : Alive(w)
       THEN Atomic_get(p, "y", "y", "check_x")
       ELSE Atomic_get(p, "x", "x", "final_y")
    /\ UNCHANGED <<oavars, iter>>

\* x = self.x.get()
Observer_check_x(p) ==
    /\ apc[p] = "check_x"
    /\ Atomic_get(p, "x", "x", "check_assert")
    /\ UNCHANGED <<oavars, iter>>

\* assert x >= y; time.sleep(0)
Observer_check_assert(p) ==
    /\ apc[p] = "check_assert"
    /\ aloc' = [aloc EXCEPT ![p] = NoCall]
    /\ AGoto(p, IF aloc[p].x >= aloc[p].y THEN "check" ELSE "dead")
    /\ UNCHANGED <<oavars, impl, ctype, cell, clock, iter>>

\* final: assert self.x.get() == self.total; assert self.y.get() == self.total
Observer_final_y(p) ==
    /\ apc[p] = "final_y"
    /\ Atomic_get(p, "y", "y", "final_assert")
    /\ UNCHANGED <<oavars, iter>>

\* ParallelLoop.total = n * count
total == NProcs * MaxLoop

Observer_final_assert(p) ==
    /\ apc[p] = "final_assert"
    /\ AGoto(p, IF aloc[p].x = total /\ aloc[p].y = total THEN "done" ELSE "dead")
    /\ UNCHANGED <<oavars, impl, ctype, cell, clock, aloc, iter>>

\* atomic_test.test_ordering
Ordering(p) ==
    \/ p \in Workers /\ Worker_loop(p)
    \/ p \in Workers /\ Worker_loop_y(p)
    \/ p = Observer /\ Observer_check(p)
    \/ p = Observer /\ Observer_check_x(p)
    \/ p = Observer /\ Observer_check_assert(p)
    \/ p = Observer /\ Observer_final_y(p)
    \/ p = Observer /\ Observer_final_assert(p)

----------------------------------------------------------------------------
(* Counter, mpmetrics/metrics.py.                                          *)

\* amounts passed to Counter.inc: negative, two small ones, and the largest UInt64
IncAmounts == {-1, 1, 2, ctype_max("UInt64")}
\* exemplars passed to Counter.inc: none, a valid label set, and one that
\* _validate_exemplar rejects
IncExemplars == {None, "trace", "bad"}

\* _validate_exemplar returns (it raises ValueError otherwise)
_validate_exemplar(exemplar) == exemplar # "bad"

\* the with block of count_exceptions ends without an exception, or raises
\* one of these
NoException == ""
Raisable == {NoException, "ValueError", "TypeError"}
\* the exception types given to count_exceptions
ExceptionArgs == {"Exception", "ValueError"}
\* `except exception:` catches an instance of the class or of a subclass
issubclass(cls, classinfo) == classinfo = "Exception" \/ cls = classinfo
\* history: the last count_exceptions call
NoBlock == [exception |-> "", raised |-> "", counted |-> FALSE, propagates |-> FALSE]

\* Counter.__init__: Struct.__init__ zeroes every field
CounterInit ==
    /\ counter_lock = NoProc
    /\ counter_exemplar = [amount |-> 0, timestamp |-> 0, labels |-> ""]
    /\ counter_hist = [ninc |-> 0, nsample |-> 0, passed |-> 0, last |-> 0,
                       written |-> {}, block |-> NoBlock]

IncPcs ==
    {"inc_add", "add_body", "inc_raised", "inc_added", "inc_amount",
     "inc_timestamp", "inc_labels"}

\* every inc call has been made and has returned or raised
AllDone ==
    /\ counter_hist.ninc = MaxInc
    /\ \A q \in Procs : apc[q] \notin IncPcs

\* the caller is back outside the call
CReturn(p) ==
    /\ AGoto(p, "idle")
    /\ aloc' = [aloc EXCEPT ![p] = NoCall]

\* (mutant) a negative amount is not rejected
Counter_inc_any_amount(p, amount, exemplar) ==
    /\ apc[p] = "idle"
    /\ counter_hist.ninc < MaxInc
    /\ IF exemplar # None /\ ~_validate_exemplar(exemplar)
       THEN /\ counter_hist' = [counter_hist EXCEPT !.ninc = @ + 1]
            /\ UNCHANGED <<apc, aloc>>
       ELSE /\ counter_hist' = [counter_hist EXCEPT !.ninc = @ + 1,
                                                    !.passed = @ + amount]
            /\ aloc' = [aloc EXCEPT ![p] = [NoCall EXCEPT !.amount = amount,
                                                          !.exemplar = exemplar]]
            /\ AGoto(p, "inc_add")
    /\ UNCHANGED <<ocvars, impl, ctype, cell, clock, iter, counter_lock, counter_exemplar>>

\* Counter.inc: if amount < 0: raise ValueError; if exemplar is not None:
\* _validate_exemplar(exemplar)
Counter_inc(p, amount, exemplar) ==
    /\ apc[p] = "idle"
    /\ counter_hist.ninc < MaxInc
    /\ IF amount < 0 \/ (exemplar # None /\ ~_validate_exemplar(exemplar))
       THEN /\ counter_hist' = [counter_hist EXCEPT !.ninc = @ + 1]
            /\ UNCHANGED <<apc, aloc>>
       ELSE /\ counter_hist' = [counter_hist EXCEPT !.ninc = @ + 1,
                                                    !.passed = @ + amount]
            /\ aloc' = [aloc EXCEPT ![p] = [NoCall EXCEPT !.amount = amount,
                                                          !.exemplar = exemplar]]
            /\ AGoto(p, "inc_add")
    /\ UNCHANGED <<ocvars, impl, ctype, cell, clock, iter, counter_lock, counter_exemplar>>

\* (mutant) the amount is stored, not added
Counter_inc_add_set(p) ==
    /\ apc[p] = "inc_add"
    /\ Atomic_set(p, "_total", aloc[p].amount, "inc_added")
    /\ UNCHANGED <<ocvars, cvars, iter>>

\* self._total.add(amount)
Counter_inc_add(p) ==
    /\ apc[p] = "inc_add"
    /\ Atomic_add(p, "_total", aloc[p].amount, TRUE, "inc_added", "inc_raised")
    /\ UNCHANGED <<ocvars, cvars, iter>>

\* the OverflowError of add leaves inc
Counter_inc_raised(p) ==
    /\ apc[p] = "inc_raised"
    /\ CReturn(p)
    /\ UNCHANGED <<ocvars, cvars, impl, ctype, cell, clock, iter>>

\* if exemplar is not None: with self._lock:
Counter_inc_added(p) ==
    /\ apc[p] = "inc_added"
    /\ IF aloc[p].exemplar = None
       THEN CReturn(p) /\ UNCHANGED counter_lock
       ELSE /\ counter_lock = NoProc
            /\ counter_lock' = p
            /\ AGoto(p, "inc_amount")
            /\ UNCHANGED aloc
    /\ UNCHANGED <<ocvars, impl, ctype, cell, clock, iter, counter_exemplar, counter_hist>>

\* self._exemplar_amount.value = amount
Counter_inc_amount(p) ==
    /\ apc[p] = "inc_amount"
    /\ counter_exemplar' =
          [counter_exemplar EXCEPT !.amount = ctypes_store("UInt64", aloc[p].amount)]
    /\ AGoto(p, "inc_timestamp")
    /\ UNCHANGED <<ocvars, impl, ctype, cell, clock, aloc, iter, counter_lock, counter_hist>>

\* self._exemplar_timestamp.value = time.time(): the clock of the model is
\* the number of inc calls made
Counter_inc_timestamp(p) ==
    /\ apc[p] = "inc_timestamp"
    /\ counter_exemplar' = [counter_exemplar EXCEPT !.timestamp = counter_hist.ninc]
    /\ aloc' = [aloc EXCEPT ![p].timestamp = counter_hist.ninc]
    /\ AGoto(p, "inc_labels")
    /\ UNCHANGED <<ocvars, impl, ctype, cell, clock, iter, counter_lock, counter_hist>>

\* self._exemplar_labels.clear(); self._exemplar_labels |= exemplar; the
\* end of the with block.  written (the triples that one inc call wrote
\* with its amount, its timestamp and its labels) is history.
Counter_inc_labels(p) ==
    /\ apc[p] = "inc_labels"
    /\ counter_exemplar' = [counter_exemplar EXCEPT !.labels = aloc[p].exemplar]
    /\ counter_hist' =
          [counter_hist EXCEPT !.written =
              @ \cup {[amount |-> ctypes_store("UInt64", aloc[p].amount),
                       timestamp |-> aloc[p].timestamp,
                       labels |-> aloc[p].exemplar]}]
    /\ counter_lock' = NoProc
    /\ CReturn(p)
    /\ UNCHANGED <<ocvars, impl, ctype, cell, clock, iter>>

\* (mutant) _sample does not wait for the lock
Counter_sample_nolock(p) ==
    /\ apc[p] = "idle"
    /\ counter_hist.nsample < MaxSample
    /\ counter_hist' = [counter_hist EXCEPT !.nsample = @ + 1]
    /\ counter_lock' = p
    /\ aloc' = [aloc EXCEPT ![p] = [NoCall EXCEPT !.floor = counter_hist.last]]
    /\ AGoto(p, "sample_timestamp")
    /\ UNCHANGED <<ocvars, impl, ctype, cell, clock, iter, counter_exemplar>>

\* Counter._sample: with self._lock:
Counter_sample(p) ==
    /\ apc[p] = "idle"
    /\ counter_hist.nsample < MaxSample
    /\ counter_hist' = [counter_hist EXCEPT !.nsample = @ + 1]
    /\ counter_lock = NoProc
    /\ counter_lock' = p
    /\ aloc' = [aloc EXCEPT ![p] = [NoCall EXCEPT !.floor = counter_hist.last]]
    /\ AGoto(p, "sample_timestamp")
    /\ UNCHANGED <<ocvars, impl, ctype, cell, clock, iter, counter_exemplar>>

\* timestamp = self._exemplar_timestamp.value; if timestamp: ...
Counter_sample_timestamp(p) ==
    /\ apc[p] = "sample_timestamp"
    /\ IF counter_exemplar.timestamp # 0
       THEN /\ aloc' = [aloc EXCEPT ![p].timestamp = counter_exemplar.timestamp]
            /\ AGoto(p, "sample_amount")
            /\ UNCHANGED counter_lock
       ELSE /\ aloc' = [aloc EXCEPT ![p].quiet = AllDone]
            /\ counter_lock' = NoProc
            /\ AGoto(p, "sample_total")
    /\ UNCHANGED <<ocvars, impl, ctype, cell, clock, iter, counter_exemplar, counter_hist>>

\* amount = self._exemplar_amount.value
Counter_sample_amount(p) ==
    /\ apc[p] = "sample_amount"
    /\ aloc' = [aloc EXCEPT ![p].amount = counter_exemplar.amount]
    /\ AGoto(p, "sample_labels")
    /\ UNCHANGED <<ocvars, cvars, impl, ctype, cell, clock, iter>>

\* labels = self._exemplar_labels.copy(); the end of the with block
Counter_sample_labels(p) ==
    /\ apc[p] = "sample_labels"
    /\ aloc' = [aloc EXCEPT ![p].labels = counter_exemplar.labels,
                            ![p].quiet = AllDone]
    /\ counter_lock' = NoProc
    /\ AGoto(p, "sample_total")
    /\ UNCHANGED <<ocvars, impl, ctype, cell, clock, iter, counter_exemplar, counter_hist>>

\* self._total.get()
Counter_sample_total(p) ==
    /\ apc[p] = "sample_total"
    /\ Atomic_get(p, "_total", "x", "sample_emit")
    /\ UNCHANGED <<ocvars, cvars, iter>>

\* add_sample('_total', ..., exemplar=Exemplar(labels, amount, timestamp)
\* if timestamp else None)
Counter_sample_emit(p) ==
    /\ apc[p] = "sample_emit"
    /\ counter_hist' = [counter_hist EXCEPT !.last = aloc[p].x]
    /\ CReturn(p)
    /\ UNCHANGED <<ocvars, impl, ctype, cell, clock, iter, counter_lock, counter_exemplar>>

\* @contextmanager count_exceptions: try: yield / except exception:
\* self.inc().  The with block raises exc (or nothing).  An exception
\* that the except clause does not catch leaves the generator, and the
\* context manager lets it propagate; one that it catches is handled: the
\* generator calls self.inc() and ends normally, so the context manager's
\* __exit__ returns True and the with statement suppresses the exception.
Counter_count_exceptions(p, exception, exc) ==
    /\ apc[p] = "idle"
    /\ LET caught == exc # NoException /\ issubclass(exc, exception) IN
        IF caught
        THEN /\ counter_hist.ninc < MaxInc
             /\ counter_hist' =
                   [counter_hist EXCEPT
                      !.ninc = @ + 1, !.passed = @ + 1,
                      !.block = [exception |-> exception, raised |-> exc,
                                 counted |-> TRUE, propagates |-> FALSE]]
             /\ aloc' = [aloc EXCEPT ![p] = [NoCall EXCEPT !.amount = 1,
                                                           !.exemplar = None]]
             /\ AGoto(p, "inc_add")
        ELSE /\ counter_hist' =
                   [counter_hist EXCEPT
                      !.block = [exception |-> exception, raised |-> exc,
                                 counted |-> FALSE,
                                 propagates |-> exc # NoException]]
             /\ UNCHANGED <<apc, aloc>>
    /\ UNCHANGED <<ocvars, impl, ctype, cell, clock, iter, counter_lock, counter_exemplar>>

Counter(p) ==
    \/ \E amount \in IncAmounts, exemplar \in IncExemplars : Counter_inc(p, amount, exemplar)
    \/ \E exception \in ExceptionArgs, exc \in Raisable :
          Counter_count_exceptions(p, exception, exc)
    \/ Counter_inc_add(p)
    \/ Counter_inc_raised(p)
    \/ Counter_inc_added(p)
    \/ Counter_inc_amount(p)
    \/ Counter_inc_timestamp(p)
    \/ Counter_inc_labels(p)
    \/ Counter_sample(p)
    \/ Counter_sample_timestamp(p)
    \/ Counter_sample_amount(p)
    \/ Counter_sample_labels(p)
    \/ Counter_sample_total(p)
    \/ Counter_sample_emit(p)

----------------------------------------------------------------------------
(* LabeledCollector, mpmetrics/metrics.py.                                 *)

\* the threads that call labels and collect, and the process of each: the
\* last thread runs in the process of the first
Threads == AProcs
ProcessOf(t) == IF t = Observer THEN 1 ELSE t

\* self._labelnames of the collector (metric_test's counter fixture)
labelnames == <<"l">>

\* label values as passed by the caller: None, the string 'None' and 'x'
PyNone == [type |-> "NoneType", repr |-> "None"]
StrNone == [type |-> "str", repr |-> "None"]
StrX == [type |-> "str", repr |-> "x"]
\* str(label)
str(v) == v.repr

\* the *values and **labels of a labels call
PositionalArgs == {<<>>, <<PyNone>>, <<StrX>>, <<StrX, StrX>>}
KeywordArgs ==
    [{} -> {StrX}] \cup [{"l"} -> {StrNone, StrX}] \cup [{"m"} -> {StrX}]
        \cup [{"l", "m"} -> {StrX}]

\* no child: what dict.get returns for a missing key
NoMetric == 0

\* (mutant) keyword names are not compared with the label names
_label_values_any_name(values, labels) ==
    IF Len(values) > 0 /\ DOMAIN labels # {}
    THEN [error |-> TRUE, values |-> <<>>]
    ELSE IF DOMAIN labels # {}
    THEN IF "l" \notin DOMAIN labels
         THEN [error |-> TRUE, values |-> <<>>]
         ELSE [error |-> FALSE,
               values |-> [i \in 1..Len(labelnames) |-> str(labels[labelnames[i]])]]
    ELSE IF Len(values) # Len(labelnames)
         THEN [error |-> TRUE, values |-> <<>>]
         ELSE [error |-> FALSE, values |-> [i \in 1..Len(values) |-> str(values[i])]]

\* LabeledCollector._label_values: error stands for raise ValueError.
\* sorted(labels) != sorted(self._labelnames) compares the keyword names
\* with the (distinct) label names.
_label_values(values, labels) ==
    IF Len(values) > 0 /\ DOMAIN labels # {}
    THEN [error |-> TRUE, values |-> <<>>]
    ELSE IF DOMAIN labels # {}
    THEN IF DOMAIN labels # {labelnames[i] : i \in 1..Len(labelnames)}
         THEN [error |-> TRUE, values |-> <<>>]
         ELSE [error |-> FALSE,
               values |-> [i \in 1..Len(labelnames) |-> str(labels[labelnames[i]])]]
    ELSE IF Len(values) # Len(labelnames)
         THEN [error |-> TRUE, values |-> <<>>]
         ELSE [error |-> FALSE, values |-> [i \in 1..Len(values) |-> str(values[i])]]

\* the label tuples a valid call can name
LabelTuples == {<<"None">>, <<"x">>}

NoArgs == [values |-> <<>>, labels |-> [n \in {} |-> StrX]]
NoLabelsCall ==
    [args |-> NoArgs, values |-> <<>>, metric |-> NoMetric, size |-> 0,
     out |-> <<>>, snap |-> {}, failed |-> <<>>]

\* LabeledCollector.__init__ / _setstate: an empty shared map, an empty
\* cache and a free lock in every process
LabeledInit ==
    /\ labeled_metrics = [k \in LabelTuples |-> NoMetric]
    /\ labeled_shared_lock = NoProc
    /\ labeled_cache = [q \in Procs |-> <<>>]
    /\ labeled_lock = [q \in Procs |-> NoProc]
    /\ lpc = [t \in Threads |-> "idle"]
    /\ lloc = [t \in Threads |-> NoLabelsCall]
    /\ labeled_hist = [ncalls |-> 0, nblocks |-> 0]

LGoto(t, l) == lpc' = [lpc EXCEPT ![t] = l]

\* dict.get(values) on a cache
cache_get(cache, values) ==
    IF \E i \in 1..Len(cache) : cache[i].values = values
    THEN cache[CHOOSE i \in 1..Len(cache) : cache[i].values = values].metric
    ELSE NoMetric

\* labels(*values, **labels): values = self._label_values(values, labels)
LabeledCollector_labels(t, values, labels) ==
    /\ lpc[t] = "idle"
    /\ labeled_hist.ncalls < MaxLabels
    /\ labeled_hist' = [labeled_hist EXCEPT !.ncalls = @ + 1]
    /\ LET r == _label_values(values, labels)
       IN  /\ lloc' = [lloc EXCEPT ![t] =
                         [NoLabelsCall EXCEPT
                            !.args = [values |-> values, labels |-> labels],
                            !.values = r.values]]
           /\ LGoto(t, IF r.error THEN "l_raised" ELSE "l_lock")
    /\ UNCHANGED <<olvars, labeled_metrics, labeled_shared_lock, labeled_cache, labeled_lock>>

\* the ValueError of _label_values reaches the caller
LabeledCollector_labels_raised(t) ==
    /\ lpc[t] = "l_raised"
    /\ lloc' = [lloc EXCEPT ![t] = NoLabelsCall]
    /\ LGoto(t, "idle")
    /\ UNCHANGED <<olvars, labeled_metrics, labeled_shared_lock, labeled_cache, labeled_lock, labeled_hist>>

\* with self._lock:
LabeledCollector_labels_lock(t) ==
    /\ lpc[t] = "l_lock"
    /\ labeled_lock[ProcessOf(t)] = NoProc
    /\ labeled_lock' = [labeled_lock EXCEPT ![ProcessOf(t)] = t]
    /\ LGoto(t, "l_cache")
    /\ UNCHANGED <<olvars, labeled_metrics, labeled_shared_lock, labeled_cache, lloc, labeled_hist>>

\* metric = self._cache.get(values); if not metric: ... ; return metric
LabeledCollector_labels_cache(t) ==
    /\ lpc[t] = "l_cache"
    /\ LET metric == cache_get(labeled_cache[ProcessOf(t)], lloc[t].values)
       IN  IF metric # NoMetric
           THEN /\ labeled_lock' = [labeled_lock EXCEPT ![ProcessOf(t)] = NoProc]
                /\ lloc' = [lloc EXCEPT ![t] = NoLabelsCall]
                /\ LGoto(t, "idle")
           ELSE /\ LGoto(t, "l_shared")
                /\ UNCHANGED <<labeled_lock, lloc>>
    /\ UNCHANGED <<olvars, labeled_metrics, labeled_shared_lock, labeled_cache, labeled_hist>>

\* (mutant) the shared lock is not waited for
LabeledCollector_labels_shared_nolock(t) ==
    /\ lpc[t] = "l_shared"
    /\ labeled_shared_lock' = t
    /\ LGoto(t, "l_get")
    /\ UNCHANGED <<olvars, labeled_metrics, labeled_cache, labeled_lock, lloc, labeled_hist>>

\* with self._shared_lock:
LabeledCollector_labels_shared(t) ==
    /\ lpc[t] = "l_shared"
    /\ labeled_shared_lock = NoProc
    /\ labeled_shared_lock' = t
    /\ LGoto(t, "l_get")
    /\ UNCHANGED <<olvars, labeled_metrics, labeled_cache, labeled_lock, lloc, labeled_hist>>

\* metric = self._metrics.get(values); if not metric: ...; the end of the
\* inner with block when the child exists
LabeledCollector_labels_get(t) ==
    /\ lpc[t] = "l_get"
    /\ lloc' = [lloc EXCEPT ![t].metric = labeled_metrics[lloc[t].values]]
    /\ IF labeled_metrics[lloc[t].values] # NoMetric
       THEN /\ labeled_shared_lock' = NoProc
            /\ LGoto(t, "l_put")
       ELSE /\ LGoto(t, "l_new")
            /\ UNCHANGED labeled_shared_lock
    /\ UNCHANGED <<olvars, labeled_metrics, labeled_cache, labeled_lock, labeled_hist>>

\* metric = self._metric(self._heap, **self._kwargs): Box.__init__ takes a
\* new block from the heap; self._metrics[values] = metric; the end of the
\* inner with block
LabeledCollector_labels_new(t) ==
    /\ lpc[t] = "l_new"
    /\ labeled_hist' = [labeled_hist EXCEPT !.nblocks = @ + 1]
    /\ lloc' = [lloc EXCEPT ![t].metric = labeled_hist.nblocks + 1]
    /\ labeled_metrics' =
          [labeled_metrics EXCEPT ![lloc[t].values] = labeled_hist.nblocks + 1]
    /\ labeled_shared_lock' = NoProc
    /\ LGoto(t, "l_put")
    /\ UNCHANGED <<olvars, labeled_cache, labeled_lock>>

\* self._cache[values] = metric; return metric (the end of the with block)
LabeledCollector_labels_put(t) ==
    /\ lpc[t] = "l_put"
    /\ labeled_cache' =
          [labeled_cache EXCEPT ![ProcessOf(t)] =
              Append(@, [values |-> lloc[t].values, metric |-> lloc[t].metric])]
    /\ labeled_lock' = [labeled_lock EXCEPT ![ProcessOf(t)] = NoProc]
    /\ lloc' = [lloc EXCEPT ![t] = NoLabelsCall]
    /\ LGoto(t, "idle")
    /\ UNCHANGED <<olvars, labeled_metrics, labeled_shared_lock, labeled_hist>>

\* collect: with self._lock:
LabeledCollector_collect(t) ==
    /\ lpc[t] = "idle"
    /\ labeled_hist.ncalls < MaxLabels
    /\ labeled_hist' = [labeled_hist EXCEPT !.ncalls = @ + 1]
    /\ labeled_lock[ProcessOf(t)] = NoProc
    /\ labeled_lock' = [labeled_lock EXCEPT ![ProcessOf(t)] = t]
    /\ LGoto(t, "c_shared")
    /\ UNCHANGED <<olvars, labeled_metrics, labeled_shared_lock, labeled_cache, lloc>>

\* the shared children that the cache lacks, in the order of the shared map
RECURSIVE missing(_, _)
missing(keys, cache) ==
    IF keys = {} THEN <<>>
    ELSE LET k == CHOOSE k \in keys : \A j \in keys : labeled_metrics[k] <= labeled_metrics[j]
         IN  IF cache_get(cache, k) = NoMetric
             THEN <<[values |-> k, metric |-> labeled_metrics[k]]>>
                      \o missing(keys \ {k}, cache)
             ELSE missing(keys \ {k}, cache)

\* with self._shared_lock: for values, metric in self._metrics.items():
\* if values not in self._cache: self._cache[values] = metric
LabeledCollector_collect_shared(t) ==
    /\ lpc[t] = "c_shared"
    /\ labeled_shared_lock = NoProc
    /\ labeled_cache' =
          [labeled_cache EXCEPT ![ProcessOf(t)] =
              @ \o missing({k \in LabelTuples : labeled_metrics[k] # NoMetric}, @)]
    /\ lloc' = [lloc EXCEPT ![t].snap =
                   {k \in LabelTuples : labeled_metrics[k] # NoMetric}]
    /\ LGoto(t, "c_unlock")
    /\ UNCHANGED <<olvars, labeled_metrics, labeled_shared_lock, labeled_lock, labeled_hist>>

\* metrics = self._cache (the dict itself, not a copy); the end of the
\* with block
LabeledCollector_collect_unlock(t) ==
    /\ lpc[t] = "c_unlock"
    /\ labeled_lock' = [labeled_lock EXCEPT ![ProcessOf(t)] = NoProc]
    /\ LGoto(t, "c_iter")
    /\ UNCHANGED <<olvars, labeled_metrics, labeled_shared_lock, labeled_cache, lloc, labeled_hist>>

\* metrics.items() and its iterator, which notes the size of the dict
LabeledCollector_collect_iter(t) ==
    /\ lpc[t] = "c_iter"
    /\ lloc' = [lloc EXCEPT ![t].size = Len(labeled_cache[ProcessOf(t)])]
    /\ LGoto(t, "c_next")
    /\ UNCHANGED <<olvars, labeled_metrics, labeled_shared_lock, labeled_cache, labeled_lock, labeled_hist>>

\* for labelvalues, metric in metrics.items(): metric._sample(add_sample,
\* self._name). The dict iterator raises RuntimeError when the dict changed
\* size since the iteration began; an error raised by the _sample of a
\* child (ok = FALSE) is not caught; after the last child, yield family.
\* snap (the keys of the shared map when the call held the shared lock)
\* and failed (the child whose _sample raised) are history.
LabeledCollector_collect_next(t, ok) ==
    /\ lpc[t] = "c_next"
    /\ LET cache == labeled_cache[ProcessOf(t)]
           n == Len(lloc[t].out)
       IN  IF Len(cache) # lloc[t].size
           THEN /\ ok
                /\ LGoto(t, "c_raised")
                /\ UNCHANGED lloc
           ELSE IF n < Len(cache)
           THEN IF ok
                THEN /\ lloc' = [lloc EXCEPT ![t].out = Append(@, cache[n + 1])]
                     /\ UNCHANGED lpc
                ELSE /\ lloc' = [lloc EXCEPT ![t].failed = cache[n + 1].values]
                     /\ LGoto(t, "c_raised")
           ELSE /\ ok
                /\ LGoto(t, "c_yield")
                /\ UNCHANGED lloc
    /\ UNCHANGED <<olvars, labeled_metrics, labeled_shared_lock, labeled_cache, labeled_lock, labeled_hist>>

\* the caller of collect has the family (c_yield) or the exception
\* (c_raised): the generator is finished
LabeledCollector_collect_return(t) ==
    /\ lpc[t] \in {"c_yield", "c_raised"}
    /\ lloc' = [lloc EXCEPT ![t] = NoLabelsCall]
    /\ LGoto(t, "idle")
    /\ UNCHANGED <<olvars, labeled_metrics, labeled_shared_lock, labeled_cache, labeled_lock, labeled_hist>>

Labeled(t) ==
    \/ \E values \in PositionalArgs, labels \in KeywordArgs :
          LabeledCollector_labels(t, values, labels)
    \/ LabeledCollector_labels_raised(t)
    \/ LabeledCollector_labels_lock(t)
    \/ LabeledCollector_labels_cache(t)
    \/ LabeledCollector_labels_shared(t)
    \/ LabeledCollector_labels_get(t)
    \/ LabeledCollector_labels_new(t)
    \/ LabeledCollector_labels_put(t)
    \/ LabeledCollector_collect(t)
    \/ LabeledCollector_collect_shared(t)
    \/ LabeledCollector_collect_unlock(t)
    \/ LabeledCollector_collect_iter(t)
    \/ \E ok \in BOOLEAN : LabeledCollector_collect_next(t, ok)
    \/ LabeledCollector_collect_return(t)

----------------------------------------------------------------------------
(* Enum, mpmetrics/metrics.py.                                             *)

\* the states= argument of the constructor and the names passed to state()
StateLists == {<<>>, <<"a">>, <<"a", "b", "c">>}
StateNames == {"a", "b", "c", "d"}

\* no state() call succeeded yet
NoState == ""

NoEnumCall == [pc |-> "idle", val |-> 0, last |-> NoState, out |-> <<>>]

\* before the constructor ran
EnumInit ==
    /\ enum_states = <<>>
    /\ enum_value = 0
    /\ enum_loc = [p \in Procs |-> NoEnumCall]
    /\ enum_hist = [made |-> FALSE, nstate |-> 0, nsample |-> 0, last |-> NoState]

\* Enum.__init__: Struct.__init__ over a new (zeroed) block, then
\* self._states = states
Enum_init(states) ==
    /\ ~enum_hist.made
    /\ enum_states' = states
    /\ enum_value' = 0
    /\ enum_hist' = [enum_hist EXCEPT !.made = TRUE]
    /\ UNCHANGED <<oevars, enum_loc>>

\* list.index(x): the first (0-based) position of x, or -1 for ValueError
index(list, x) ==
    IF \E i \in 1..Len(list) : list[i] = x
    THEN (CHOOSE i \in 1..Len(list) : list[i] = x /\ \A j \in 1..(i - 1) : list[j] # x) - 1
    ELSE -1

\* Enum.state: self._value.set(self._states.index(state))
Enum_state(p, state) ==
    /\ enum_hist.made
    /\ enum_hist.nstate < MaxState
    /\ IF index(enum_states, state) < 0
       THEN /\ enum_hist' = [enum_hist EXCEPT !.nstate = @ + 1]
            /\ UNCHANGED enum_value
       ELSE /\ enum_value' = index(enum_states, state)
            /\ enum_hist' = [enum_hist EXCEPT !.nstate = @ + 1, !.last = state]
    /\ UNCHANGED <<oevars, enum_states, enum_loc>>

\* (mutant) every state up to the selected one is reported as 1
Enum_samples_upto(states, val) ==
    [i \in 1..Len(states) |-> IF i - 1 <= val THEN 1 ELSE 0]

\* the values that _sample passes to add_sample, in the order of the
\* states: int(i == val) for i, state in enumerate(self._states)
Enum_samples(states, val) ==
    [i \in 1..Len(states) |-> IF i - 1 = val THEN 1 ELSE 0]

\* Enum._sample: val = self._value.get(); last (the name selected at that
\* moment) is history
Enum_sample(p) ==
    /\ enum_hist.made
    /\ enum_loc[p].pc = "idle"
    /\ enum_hist.nsample < MaxSample
    /\ enum_hist' = [enum_hist EXCEPT !.nsample = @ + 1]
    /\ enum_loc' = [enum_loc EXCEPT ![p] =
                      [pc |-> "sample_emit", val |-> enum_value,
                       last |-> enum_hist.last, out |-> <<>>]]
    /\ UNCHANGED <<oevars, enum_states, enum_value>>

\* for i, state in enumerate(self._states): add_sample(...)
Enum_sample_emit(p) ==
    /\ enum_loc[p].pc = "sample_emit"
    /\ enum_loc' = [enum_loc EXCEPT ![p].pc = "idle",
                                    ![p].out = Enum_samples(enum_states, enum_loc[p].val)]
    /\ UNCHANGED <<oevars, enum_states, enum_value, enum_hist>>

----------------------------------------------------------------------------
(* _HistogramFactory, mpmetrics/metrics.py.                                *)

\* the elements of a buckets= argument
BucketValues == {0, 1, 2, 3, Inf}
RECURSIVE SeqsUpTo(_, _)
SeqsUpTo(S, n) ==
    IF n = 0 THEN {<<>>}
    ELSE SeqsUpTo(S, n - 1)
            \cup {Append(q, x) : q \in {r \in SeqsUpTo(S, n - 1) : Len(r) = n - 1}, x \in S}
BucketArgs == SeqsUpTo(BucketValues, MaxBuckets)

\* sorted(list): insertion of each element into the sorted rest
RECURSIVE sorted(_)
sorted(list) ==
    IF list = <<>> THEN <<>>
    ELSE LET rest == sorted(Tail(list))
             x == Head(list)
             n == Cardinality({k \in 1..Len(rest) : rest[k] < x})
         IN  SubSeq(rest, 1, n) \o <<x>> \o SubSeq(rest, n + 1, Len(rest))

NoResult == [called |-> FALSE, error |-> FALSE, thresholds |-> <<>>]

FactoryInit ==
    /\ factory_buckets = <<>>
    /\ factory_result = NoResult

\* (mutant) +inf is appended to every list
HistogramFactory_thresholds_always_inf(buckets) ==
    IF buckets # sorted(buckets)
    THEN [called |-> TRUE, error |-> TRUE, thresholds |-> <<>>]
    ELSE LET thresholds_ == Append(buckets, Inf)
         IN  IF Len(thresholds_) < 2
             THEN [called |-> TRUE, error |-> TRUE, thresholds |-> <<>>]
             ELSE [called |-> TRUE, error |-> FALSE, thresholds |-> thresholds_]

\* _HistogramFactory.__call__ up to thresholds = tuple(thresholds); error
\* stands for raise ValueError. float(b) keeps the value of b.
HistogramFactory_thresholds(buckets) ==
    IF buckets # sorted(buckets)
    THEN [called |-> TRUE, error |-> TRUE, thresholds |-> <<>>]
    ELSE LET thresholds_ ==
                 IF Len(buckets) > 0 /\ buckets[Len(buckets)] # Inf
                 THEN Append(buckets, Inf) ELSE buckets
         IN  IF Len(thresholds_) < 2
             THEN [called |-> TRUE, error |-> TRUE, thresholds |-> <<>>]
             ELSE [called |-> TRUE, error |-> FALSE, thresholds |-> thresholds_]

\* Histogram(name, documentation, buckets=...)
HistogramFactory_call ==
    /\ ~factory_result.called
    /\ factory_result' = HistogramFactory_thresholds(factory_buckets)
    /\ UNCHANGED <<ofvars, factory_buckets>>

----------------------------------------------------------------------------
(* Gauge.track_inprogress, mpmetrics/metrics.py.                           *)

\* a new Gauge: no scope was entered
GaugeInit == gauge_scopes = [open |-> [p \in Procs |-> 0], entered |-> 0]

\* track_inprogress, up to the yield: self.inc(), that is
\* self._value.add(1); the scope may be nested in the scopes p is inside
Gauge_track_inprogress(p) ==
    /\ apc[p] = "idle"
    /\ gauge_scopes.entered < MaxScope
    /\ gauge_scopes' = [gauge_scopes EXCEPT !.entered = @ + 1]
    /\ Atomic_add(p, "_value", 1, TRUE, "g_yield", "idle")
    /\ UNCHANGED <<ogvars, iter>>

\* yield: the block of the with statement begins
Gauge_track_inprogress_yield(p) ==
    /\ apc[p] = "g_yield"
    /\ gauge_scopes' = [gauge_scopes EXCEPT !.open[p] = @ + 1]
    /\ AGoto(p, "idle")
    /\ UNCHANGED <<ogvars, impl, ctype, cell, clock, aloc, iter>>

\* (mutant) the decrement is not in a finally clause: an exception leaves
\* the scope without it
Gauge_track_inprogress_nofinally(p, exception) ==
    /\ apc[p] = "idle"
    /\ gauge_scopes.open[p] > 0
    /\ IF exception
       THEN /\ gauge_scopes' = [gauge_scopes EXCEPT !.open[p] = @ - 1]
            /\ UNCHANGED <<impl, ctype, cell, clock, aloc, apc>>
       ELSE /\ Atomic_add(p, "_value", -1, TRUE, "g_exit", "idle")
            /\ UNCHANGED gauge_scopes
    /\ UNCHANGED <<ogvars, iter>>

\* the block of the innermost scope of p ends, normally or with an
\* exception: finally: self.dec(), that is self._value.add(-1)
Gauge_track_inprogress_finally(p, exception) ==
    /\ apc[p] = "idle"
    /\ gauge_scopes.open[p] > 0
    /\ Atomic_add(p, "_value", -1, TRUE, "g_exit", "idle")
    /\ UNCHANGED <<ogvars, gauge_scopes, iter>>

\* the with statement is left (an exception goes on to the caller)
Gauge_track_inprogress_exit(p) ==
    /\ apc[p] = "g_exit"
    /\ gauge_scopes' = [gauge_scopes EXCEPT !.open[p] = @ - 1]
    /\ AGoto(p, "idle")
    /\ UNCHANGED <<ogvars, impl, ctype, cell, clock, aloc, iter>>

\* Gauge._sample: add_sample('', self._value.get())
Gauge_sample(p) ==
    /\ apc[p] = "idle"
    /\ Atomic_get(p, "_value", "x", "idle")
    /\ UNCHANGED <<ogvars, gauge_scopes, iter>>

Gauge(p) ==
    \/ Gauge_track_inprogress(p)
    \/ Gauge_track_inprogress_yield(p)
    \/ \E exception \in BOOLEAN : Gauge_track_inprogress_finally(p, exception)
    \/ Gauge_track_inprogress_exit(p)
    \/ Gauge_sample(p)

----------------------------------------------------------------------------
(* Object and Dict, mpmetrics/types.py.  A Python dict is the sequence of  *)
(* its <<key, value>> items in insertion order; the memory of a block is a *)
(* sequence of tokens, "" where nothing was written.                       *)

DictKeys == {"a", "b", "c", "d"}
DictValues == {"1", "2"}
\* the arguments of update, |= and |
DictOthers ==
    {<<>>, <<<<"b", "2">>>>,
     <<<<"a", "2">>, <<"b", "1">>, <<"c", "1">>, <<"d", "1">>>>}

\* key in d
dict_contains(d, k) == \E i \in 1..Len(d) : d[i][1] = k
\* d[key]: err is the exception raised, "" for none
dict_getitem(d, k) ==
    IF dict_contains(d, k)
    THEN [err |-> "", val |-> d[CHOOSE i \in 1..Len(d) : d[i][1] = k][2]]
    ELSE [err |-> "KeyError", val |-> ""]
\* d[key] = value: a present key keeps its place
dict_setitem(d, k, v) ==
    IF dict_contains(d, k)
    THEN [i \in 1..Len(d) |-> IF d[i][1] = k THEN <<k, v>> ELSE d[i]]
    ELSE Append(d, <<k, v>>)
\* del d[key], for a present key
dict_delitem(d, k) == SelectSeq(d, LAMBDA e : e[1] # k)
\* d.update(other)
RECURSIVE dict_update(_, _)
dict_update(d, other) ==
    IF other = <<>> THEN d
    ELSE dict_update(dict_setitem(d, Head(other)[1], Head(other)[2]), Tail(other))

\* _Pickler.dumps(v, heap): the bytes of the pickle, here a token for the
\* start, two for every item and one for the end
RECURSIVE dumps(_)
dumps(v) ==
    IF v = <<>> THEN <<"{", "}">>
    ELSE <<"{", v[1][1], v[1][2]>> \o Tail(dumps(Tail(v)))

\* _Unpickler.loads(data, heap)
loads(buf) ==
    IF /\ Len(buf) >= 2 /\ Len(buf) % 2 = 0
       /\ buf[1] = "{" /\ buf[Len(buf)] = "}"
       /\ \A i \in 2..(Len(buf) - 1) : buf[i] \notin {"{", "}"}
    THEN [err |-> "",
          val |-> [i \in 1..((Len(buf) - 2) \div 2) |-> <<buf[2 * i], buf[2 * i + 1]>>]]
    ELSE [err |-> "UnpicklingError", val |-> <<>>]

\* a new Box[Dict]: a zeroed header, no block
NoPayload == <<>>
NoAnswer == [err |-> "", val |-> <<>>]
DictInit ==
    /\ object_header = [start |-> 0, size |-> 0, len |-> 0]
    /\ object_payload = NoPayload
    /\ dict_model = <<>>
    /\ dict_hist = [base |-> CACHELINESIZE, nmutate |-> 0, op |-> "",
                    got |-> NoAnswer, want |-> NoAnswer]

\* (mutant) the whole block is unpickled, not its first _len bytes
Object_object_whole_block ==
    IF object_header.len # 0
    THEN loads(SubSeq(object_payload, 1, object_header.size))
    ELSE [err |-> "", val |-> <<>>]

\* the getter of Object._object, through any handle on the header:
\* _Unpickler.loads(self._block.deref()[:self._len.value], self._heap) if
\* self._len.value, else self._new()
Object_object ==
    IF object_header.len # 0
    THEN loads(SubSeq(object_payload, 1, object_header.len))
    ELSE [err |-> "", val |-> <<>>]

zeros(n) == [i \in 1..n |-> ""]

\* (mutant) the new block is as large as the pickle
Object_object_set_tight(v) ==
    LET vs == dumps(v)
        new_length == Len(vs)
    IN  IF new_length > object_header.size
        THEN [header |-> [start |-> dict_hist.base, size |-> new_length,
                          len |-> new_length],
              payload |-> vs,
              base |-> dict_hist.base + new_length]
        ELSE [header |-> [object_header EXCEPT !.len = new_length],
              payload |-> vs \o SubSeq(object_payload, new_length + 1, object_header.size),
              base |-> dict_hist.base]

\* the setter of Object._object: the new header, the memory of its block
\* and the next free offset of the heap.  self._heap.malloc(4 * new_length)
\* returns a block of that size in memory that nothing was written to.
Object_object_set(v) ==
    LET vs == dumps(v)
        new_length == Len(vs)
    IN  IF new_length > object_header.size
        THEN [header |-> [start |-> dict_hist.base, size |-> 4 * new_length,
                          len |-> new_length],
              payload |-> vs \o zeros(3 * new_length),
              base |-> dict_hist.base + 4 * new_length]
        ELSE [header |-> [object_header EXCEPT !.len = new_length],
              payload |-> vs \o SubSeq(object_payload, new_length + 1, object_header.size),
              base |-> dict_hist.base]

\* the answer of a query q on the dict d: len(d), d[k], list(d), k in d,
\* d | other
Mapping_query(d, q) ==
    CASE q.op = "len" -> [err |-> "", val |-> Len(d)]
      [] q.op = "getitem" -> dict_getitem(d, q.k)
      [] q.op = "iter" -> [err |-> "", val |-> [i \in 1..Len(d) |-> d[i][1]]]
      [] q.op = "contains" -> [err |-> "", val |-> dict_contains(d, q.k)]
      [] q.op = "or" -> [err |-> "", val |-> dict_update(d, q.other)]

Queries ==
    {[op |-> "len"], [op |-> "iter"]}
        \cup {[op |-> o, k |-> k] : o \in {"getitem", "contains"}, k \in {"a", "b"}}
        \cup {[op |-> "or", other |-> other] : other \in DictOthers}

\* the exception of a query or mutation on the unpickled object, or of the
\* unpickling
Answer(object, q) ==
    IF object.err # "" THEN [err |-> object.err, val |-> <<>>]
    ELSE Mapping_query(object.val, q)

\* Sized.__len__, Sequence.__getitem__, Iterable.__iter__,
\* Container.__contains__, Dict.__or__ through the handle of p: each
\* unpickles self._object and asks it
Dict_query(p, q) ==
    /\ dict_hist' = [dict_hist EXCEPT !.op = q.op,
                                      !.got = Answer(Object_object, q),
                                      !.want = Mapping_query(dict_model, q)]
    /\ UNCHANGED <<otvars, object_header, object_payload, dict_model>>

\* the effect of a mutation m on the dict d: the new dict or an exception
MutableMapping_mutate(d, m) ==
    CASE m.op = "setitem" -> [err |-> "", val |-> dict_setitem(d, m.k, m.v)]
      [] m.op = "delitem" ->
            IF dict_contains(d, m.k)
            THEN [err |-> "", val |-> dict_delitem(d, m.k)]
            ELSE [err |-> "KeyError", val |-> d]
      [] m.op \in {"update", "ior"} -> [err |-> "", val |-> dict_update(d, m.other)]

Mutations ==
    {[op |-> "setitem", k |-> k, v |-> v] : k \in {"a", "b"}, v \in DictValues}
        \cup {[op |-> "delitem", k |-> k] : k \in {"a", "b"}}
        \cup {[op |-> o, other |-> other] : o \in {"update", "ior"}, other \in DictOthers}

\* MutableMapping.__setitem__, __delitem__, update and Dict.__ior__ through
\* the handle of p: v = self._object; the mutation of v; self._object = v.
\* An exception of the mutation leaves the shared memory as it is.
Dict_mutate(p, m) ==
    /\ dict_hist.nmutate < MaxMutate
    /\ LET object == Object_object
           new == IF object.err # "" THEN object
                  ELSE MutableMapping_mutate(object.val, m)
           set == Object_object_set(new.val)
           want == MutableMapping_mutate(dict_model, m)
       IN  /\ IF new.err # ""
              THEN /\ UNCHANGED <<object_header, object_payload>>
                   /\ dict_hist' = [dict_hist EXCEPT !.nmutate = @ + 1,
                                       !.op = m.op,
                                       !.got = [err |-> new.err, val |-> <<>>],
                                       !.want = [err |-> want.err, val |-> <<>>]]
              ELSE /\ object_header' = set.header
                   /\ object_payload' = set.payload
                   /\ dict_hist' = [dict_hist EXCEPT !.nmutate = @ + 1,
                                       !.op = m.op,
                                       !.base = set.base,
                                       !.got = NoAnswer,
                                       !.want = [err |-> want.err, val |-> <<>>]]
           /\ dict_model' = want.val
    /\ UNCHANGED otvars

\* MutableMapping.clear: self._len.value = 0
Dict_clear(p) ==
    /\ dict_hist.nmutate < MaxMutate
    /\ object_header' = [object_header EXCEPT !.len = 0]
    /\ dict_model' = <<>>
    /\ dict_hist' = [dict_hist EXCEPT !.nmutate = @ + 1, !.op = "clear",
                                      !.got = NoAnswer, !.want = NoAnswer]
    /\ UNCHANGED <<otvars, object_payload>>

----------------------------------------------------------------------------
(* List, mpmetrics/types.py.  A Python list is the sequence of its         *)
(* elements.  The header and the growth of the block are those of Object   *)
(* above; here the memory of the List is the first _len bytes of its block.*)

ListValues == {"1", "2"}
\* the right-hand sides of +=
ListOthers == {<<>>, <<"1">>, <<"2", "1">>}

\* _Pickler.dumps(v, heap) of a list: a token for the start, one for every
\* element and one for the end
list_dumps(v) == <<"[">> \o v \o <<"]">>

\* _Unpickler.loads(data, heap)
list_loads(buf) ==
    IF /\ Len(buf) >= 2 /\ buf[1] = "[" /\ buf[Len(buf)] = "]"
    THEN SubSeq(buf, 2, Len(buf) - 1)
    ELSE <<>>

\* the getter of Object._object for a List: the unpickled first _len bytes,
\* or self._new() when _len is 0
List_object == IF Len(list_payload) # 0 THEN list_loads(list_payload) ELSE <<>>

\* the name bound to the shared List, and to a plain Python list
TheList == [shared |-> TRUE, elements |-> <<>>]
PlainList(v) == [shared |-> FALSE, elements |-> v]

\* a Box[List] was made and every process holds it under the name lst
ListInit ==
    /\ list_payload = <<>>
    /\ list_names = [p \in Procs |-> TheList]
    /\ list_hist = [nmutate |-> 0, model |-> <<>>]

\* lst += other in process p.  Python runs lst = lst.__iadd__(other).  For
\* the List, MutableSequence.__iadd__ is
\* self._object = self._object + other; return self._object: the name is
\* bound to what the getter returns, a newly unpickled plain list.  For a
\* plain list, list.__iadd__ extends it in place and returns it.
List_iadd(p, other) ==
    /\ list_hist.nmutate < MaxMutate
    /\ IF list_names[p].shared
       THEN LET stored == list_dumps(List_object \o other)
                returned == IF Len(stored) # 0 THEN list_loads(stored) ELSE <<>>
            IN  /\ list_payload' = stored
                /\ list_names' = [list_names EXCEPT ![p] = PlainList(returned)]
       ELSE /\ list_names' = [list_names EXCEPT ![p].elements = @ \o other]
            /\ UNCHANGED list_payload
    /\ list_hist' = [list_hist EXCEPT !.nmutate = @ + 1, !.model = @ \o other]
    /\ UNCHANGED osvars

\* lst.append(v) in process p.  For the List, MutableSequence.append is
\* self._mutate('append', v): v = self._object; v.append(...);
\* self._object = v.  For a plain list it appends to that list.
List_append(p, v) ==
    /\ list_hist.nmutate < MaxMutate
    /\ IF list_names[p].shared
       THEN /\ list_payload' = list_dumps(Append(List_object, v))
            /\ UNCHANGED list_names
       ELSE /\ list_names' = [list_names EXCEPT ![p].elements = Append(@, v)]
            /\ UNCHANGED list_payload
    /\ list_hist' = [list_hist EXCEPT !.nmutate = @ + 1, !.model = Append(@, v)]
    /\ UNCHANGED osvars

----------------------------------------------------------------------------
(* genmask, mpmetrics/util.py.                                             *)

NoMask == -1
NoMaskArgs == [hi |-> 0, lo |-> 0]
\* the calls genmask(hi, lo) with 0 <= lo <= hi
MaskArgs == {a \in [hi : 0..MaxBit, lo : 0..MaxBit] : a.lo <= a.hi}

MaskInit == mask_args = NoMaskArgs /\ mask_result = NoMask

\* mask = 0; for n in range(lo, stop): mask |= 1 << n
RECURSIVE range_mask(_, _)
range_mask(lo, stop) ==
    IF stop <= lo THEN 0
    ELSE BitOr(range_mask(lo, stop - 1), Shl(1, stop - 1))

\* genmask(hi, lo) is called
genmask_call ==
    /\ mask_result = NoMask
    /\ mask_result' = genmask(mask_args.hi, mask_args.lo)
    /\ UNCHANGED <<okvars, mask_args>>

----------------------------------------------------------------------------
(* Specifications.                                                         *)

\* the atomic cells when no test of them runs
AtomicIdle ==
    /\ CellsInit /\ impl = "native" /\ ctype = "UInt64"
    /\ apc = [p \in AProcs |-> "idle"]

\* the state outside the sampling protocol and malloc, after construction
YInit == EnumInit /\ FactoryInit /\ GaugeInit /\ DictInit /\ ListInit /\ MaskInit

OtherInit == DerefInit /\ AtomicIdle /\ CounterInit /\ LabeledInit /\ YInit

Init == MetricInit /\ ArenaInit /\ OtherInit

Next == \E p \in Procs : Call(p) \/ Observe(p) \/ Sample(p)

Spec == Init /\ [][Next]_vars

HeapInit == MetricInit /\ kind = "summary" /\ ArenaInit /\ OtherInit

HeapNext == \E p \in Procs : Malloc(p)

HeapSpec == HeapInit /\ [][HeapNext]_vars

DerefNext == \E p \in Procs : Deref(p)

DerefSpec == HeapInit /\ [][DerefNext]_vars

CellInit ==
    /\ MetricInit /\ kind = "summary" /\ ArenaInit /\ DerefInit /\ CounterInit /\ LabeledInit /\ YInit
    /\ CellsInit
    /\ apc = [p \in AProcs |-> "idle"]

CellNext == \E p \in Procs : Cell_call(p) \/ Atomic(p) \/ Atomic_set_body(p)

CellSpec == CellInit /\ [][CellNext]_vars

OrderInit ==
    /\ MetricInit /\ kind = "summary" /\ ArenaInit /\ DerefInit /\ CounterInit /\ LabeledInit /\ YInit
    /\ CellsInit
    /\ apc = [p \in AProcs |-> IF p = Observer THEN "check" ELSE "loop"]

OrderNext == \E p \in AProcs : Ordering(p) \/ Atomic(p)

OrderSpec == OrderInit /\ [][OrderNext]_vars

\* Counter._total is an AtomicUInt64, native or lock-based
CounterSpecInit ==
    /\ MetricInit /\ kind = "summary" /\ ArenaInit /\ DerefInit /\ CounterInit /\ LabeledInit /\ YInit
    /\ CellsInit /\ ctype = "UInt64"
    /\ apc = [p \in AProcs |-> "idle"]

CounterNext == \E p \in Procs : Counter(p) \/ Atomic(p)

CounterSpec == CounterSpecInit /\ [][CounterNext]_vars

LabeledNext == \E t \in Threads : Labeled(t)

LabeledSpec == HeapInit /\ [][LabeledNext]_vars

EnumNext ==
    \/ \E states \in StateLists : Enum_init(states)
    \/ \E p \in Procs :
          \/ \E state \in StateNames : Enum_state(p, state)
          \/ Enum_sample(p)
          \/ Enum_sample_emit(p)

EnumSpec == HeapInit /\ [][EnumNext]_vars

FactorySpecInit ==
    /\ MetricInit /\ kind = "summary" /\ ArenaInit /\ DerefInit /\ AtomicIdle
    /\ CounterInit /\ LabeledInit /\ EnumInit /\ GaugeInit /\ DictInit /\ ListInit
    /\ MaskInit
    /\ factory_buckets \in BucketArgs
    /\ factory_result = NoResult

FactoryNext == HistogramFactory_call

FactorySpec == FactorySpecInit /\ [][FactoryNext]_vars

\* Gauge._value is an AtomicDouble, native or lock-based
GaugeSpecInit ==
    /\ MetricInit /\ kind = "summary" /\ ArenaInit /\ DerefInit /\ CounterInit /\ LabeledInit /\ YInit
    /\ impl \in Impls /\ ctype = "Double"
    /\ cell = [c \in Cells |-> 0]
    /\ clock = [c \in Cells |-> NoProc]
    /\ aloc = [p \in AProcs |-> NoCall]
    /\ iter = [p \in AProcs |-> 0]
    /\ apc = [p \in AProcs |-> "idle"]

GaugeNext == \E p \in Procs : Gauge(p) \/ Atomic(p)

GaugeSpec == GaugeSpecInit /\ [][GaugeNext]_vars

DictNext ==
    \E p \in Procs :
        \/ \E q \in Queries : Dict_query(p, q)
        \/ \E m \in Mutations : Dict_mutate(p, m)
        \/ Dict_clear(p)

DictSpec == HeapInit /\ [][DictNext]_vars

ListNext ==
    \E p \in Procs :
        \/ \E other \in ListOthers : List_iadd(p, other)
        \/ \E v \in ListValues : List_append(p, v)

ListSpec == HeapInit /\ [][ListNext]_vars

MaskSpecInit ==
    /\ MetricInit /\ kind = "summary" /\ ArenaInit /\ DerefInit /\ AtomicIdle
    /\ CounterInit /\ LabeledInit /\ EnumInit /\ FactoryInit /\ GaugeInit
    /\ DictInit /\ ListInit
    /\ mask_args \in MaskArgs
    /\ mask_result = NoMask

MaskNext == genmask_call

MaskSpec == MaskSpecInit /\ [][MaskNext]_vars

\* The metric after n calls of observe(1) and then t calls of _sample have
\* returned: n tickets in _count, the top bit flipped t times, all the
\* observations merged into the hot buffer.  calls, tickets and nsample
\* count from this state on.
TicketInit ==
    /\ kind \in {"summary", "histogram"}
    /\ lock = NoProc
    /\ exemplars = [k \in Buckets |-> NoExemplar]
    /\ pc = [p \in Procs |-> "idle"]
    /\ loc = [p \in Procs |-> NoLocals]
    /\ calls = <<0, 0>>
    /\ tickets = <<0, 0>>
    /\ nsample = 0
    /\ \E n \in 0..(TopBit - 1), t \in 0..1 :
          /\ count_ = t * TopBit + n
          /\ data = [b \in 0..1 |->
                       IF b # t THEN ZeroData
                       ELSE [sum |-> n, count |-> n,
                             buckets |-> IF kind = "histogram"
                                         THEN [ZeroBuckets EXCEPT ![bisect_left(thresholds, 1)] = n]
                                         ELSE ZeroBuckets]]
    /\ ArenaInit /\ OtherInit

TicketSpec == TicketInit /\ [][Next]_vars

\* The metric after construction, or after a process that called
\* observe(1) was killed between its ticket fetch-add and its last data
\* add (count.add(1)): its ticket is in _count, and of its data adds the
\* first done are in buffer 0.  The killed process is not one of Procs.
StuckInit ==
    /\ kind \in {"summary", "histogram"}
    /\ lock = NoProc
    /\ exemplars = [k \in Buckets |-> NoExemplar]
    /\ pc = [p \in Procs |-> "idle"]
    /\ loc = [p \in Procs |-> NoLocals]
    /\ calls = <<0, 0>>
    /\ tickets = <<0, 0>>
    /\ nsample = 0
    /\ \/ count_ = 0 /\ data = [b \in 0..1 |-> ZeroData]
       \/ /\ count_ = 1
          /\ \E done \in 0..2 :
                /\ kind = "summary" => done < 2
                /\ data = [b \in 0..1 |->
                     IF b = 1 THEN ZeroData
                     ELSE IF kind = "summary"
                     THEN [ZeroData EXCEPT !.sum = done]
                     ELSE [sum |-> IF done = 2 THEN 1 ELSE 0, count |-> 0,
                           buckets |-> IF done = 0 THEN ZeroBuckets
                                       ELSE [ZeroBuckets EXCEPT ![bisect_left(thresholds, 1)] = 1]]]
    /\ ArenaInit /\ OtherInit

StuckSpec == StuckInit /\ [][Next]_vars

\* Every started call keeps being scheduled: the processes are preemptively
\* scheduled threads, so a step that stays possible is eventually taken.
\* Nothing obliges a process to start a new call.
FairSpec == Spec /\ \A p \in Procs : WF_vars(Observe(p)) /\ WF_vars(Sample(p))

----------------------------------------------------------------------------
(* Properties of the sampling protocol.                                    *)

\* the samples a _sample call is about to hand to add_sample
Samples(p) ==
    IF kind = "summary" THEN Summary_samples(p)
    ELSE [count |-> Histogram_samples(p).count, sum |-> Histogram_samples(p).sum]

\* the buffer that observe calls starting now select
HotNow == Shr(count_, TopShift)
\* an observe that holds a ticket and has not finished its data adds
Pending(q) == pc[q] \in {"o_bucket", "o_sum", "o_count"}

\* C1: a _sample that runs when every observe call ever made has completed
\* (none in flight when it was called, none started since) reports _count
\* equal to the number of observe calls and _sum equal to the sum of their
\* amounts, for a Summary and for a Histogram.
C1_FinalTotals ==
    \A p \in Procs :
        (pc[p] = "s_emit" /\ loc[p].quiet) =>
            /\ Samples(p).count = calls[1]
            /\ Samples(p).sum = calls[2]

\* a second sample reports, with nothing in flight, two observations
C1_Witness ==
    \E p \in Procs :
        /\ pc[p] = "s_emit" /\ loc[p].quiet
        /\ nsample = 2 /\ calls[1] = 2 /\ Samples(p).count = 2

\* C2: an observe has a data add left to do on the buffer that is not the
\* hot one only while the reader that made that buffer cold is still in its
\* quiesce loop: once the reader has read the cold buffer, and while it
\* merges and zeroes it, no add lands in it.
C2_NoAddAfterRead ==
    \A q \in Procs :
        (Pending(q) /\ loc[q].d # HotNow) =>
            \E p \in Procs : pc[p] = "s_check" /\ loc[p].cold = loc[q].d

\* a reader is zeroing a cold buffer that held observations while another
\* observe is adding to the hot buffer
C2_Witness ==
    \E p, q \in Procs :
        /\ pc[p] \in {"s_zerocount", "s_zerosum", "s_zerob"}
        /\ loc[p].count > 0
        /\ Pending(q) /\ loc[q].d = loc[p].hot

\* C3: every Summary sample reports the number and the summed amounts of
\* exactly the observe calls whose ticket fetch-add preceded the sample's
\* flip of the top bit.
C3_SummarySnapshot ==
    \A p \in Procs :
        (kind = "summary" /\ pc[p] = "s_emit") =>
            /\ Summary_samples(p).count = loc[p].expect[1]
            /\ Summary_samples(p).sum = loc[p].expect[2]

\* a Summary sample is reported while an observe that took its ticket after
\* the flip is still in flight
C3_Witness ==
    \E p, q \in Procs :
        /\ kind = "summary" /\ pc[p] = "s_emit"
        /\ Summary_samples(p).count > 0
        /\ Pending(q)
        /\ tickets[1] > loc[p].expect[1]

\* C4: in every Histogram sample the cumulative value of the last (+inf)
\* bucket equals the emitted _count.
C4_LastBucketIsCount ==
    \A p \in Procs :
        (kind = "histogram" /\ pc[p] = "s_emit") =>
            Histogram_samples(p).buckets[bucket_count] = Histogram_samples(p).count

\* a Histogram sample with an observation below the last bucket is
\* reported while another observe is in flight
C4_Witness ==
    \E p, q \in Procs :
        /\ kind = "histogram" /\ pc[p] = "s_emit"
        /\ Histogram_samples(p).buckets[1] > 0
        /\ pc[q] \in AddingPcs

\* C5: a _sample that is in its quiesce loop leaves it and returns.
C5_QuiesceTerminates ==
    \A p \in Procs : (pc[p] = "s_check") ~> (pc[p] = "idle")

\* a reader in its quiesce loop finds the cold count short of the tickets
C5_Witness ==
    \E p \in Procs :
        /\ pc[p] = "s_check"
        /\ data[loc[p].cold].count # loc[p].count

----------------------------------------------------------------------------
(* Properties of the arena allocator.                                      *)

BlockIds == 1..Len(blocks)
End(b) == b.start + b.size

\* C7: the blocks returned by malloc are pairwise disjoint and none
\* overlaps the arena header [0, Heap.size).
C7_BlocksDisjoint ==
    /\ \A i, j \in BlockIds :
          i < j => (End(blocks[i]) <= blocks[j].start \/ End(blocks[j]) <= blocks[i].start)
    /\ \A i \in BlockIds : blocks[i].size > 0 /\ blocks[i].start >= HeapSize

\* three blocks were returned, one larger than map_size and one inside the
\* first window
C7_Witness ==
    /\ Len(blocks) = 3
    /\ \E i, j \in BlockIds :
          /\ blocks[i].size > map_size
          /\ blocks[j].start < map_size

\* C8: the start of every returned block is a multiple of the requested
\* alignment, also for an alignment larger than map_size.
C8_StartAligned ==
    \A i \in BlockIds : blocks[i].start % blocks[i].alignment = 0

\* C9: a block of size <= map_size lies inside one map_size window, and a
\* block whose requested size exceeds map_size starts on a multiple of
\* map_size.
C9_WithinWindow ==
    \A i \in BlockIds :
        /\ blocks[i].size <= map_size =>
              blocks[i].start \div map_size = (End(blocks[i]) - 1) \div map_size
        /\ blocks[i].req > map_size => blocks[i].start % map_size = 0

\* a block that did not fit the rest of its window was moved to the next
\* boundary, and a block larger than map_size was returned
C9_Witness ==
    \E i, j \in BlockIds :
        /\ blocks[i].size <= map_size /\ blocks[i].size > 1
        /\ blocks[i].start >= map_size
        /\ blocks[j].req > map_size

\* C10: every returned block ends within the backing file, in the state
\* where it is returned and in every later state, and no step of malloc
\* reduces the length of the file.
C10_WithinFile ==
    /\ [](\A i \in BlockIds : End(blocks[i]) <= flen)
    /\ [][flen' >= flen]_vars

\* a malloc failed while extending the file and left _base beyond the end
\* of the file; the block returned after it starts there
C10_Witness ==
    /\ raised # <<>> /\ raised[1].error = "OSError"
    /\ Len(blocks) >= 1
    /\ blocks[1].start = 2 * map_size

\* C11: the size of a returned block is the requested size when that is
\* at most map_size, and otherwise the smallest multiple of map_size that
\* is not below the requested size.
C11_BlockSize ==
    \A i \in BlockIds :
        IF blocks[i].req <= map_size
        THEN blocks[i].size = blocks[i].req
        ELSE /\ blocks[i].size % map_size = 0
             /\ blocks[i].size >= blocks[i].req
             /\ blocks[i].size - blocks[i].req < map_size

\* a block of a requested size above map_size and one of a size below it
\* were returned
C11_Witness ==
    \E i, j \in BlockIds :
        /\ blocks[i].req > map_size /\ blocks[i].size > blocks[i].req
        /\ blocks[j].req < map_size /\ blocks[j].req > 1

\* a request malloc must reject: a size <= 0, or an alignment that is zero,
\* negative or not a power of two
InvalidRequest(size, alignment) ==
    \/ size <= 0
    \/ alignment <= 0
    \/ \A k \in 0..13 : alignment # Pow2(k)

\* C12: no malloc call proceeds with an invalid request; a call with an
\* invalid request returns at once with ValueError, and _base and the
\* length of the backing file are what they were before the call.
C12_InvalidRaises ==
    /\ [](\A p \in Procs :
            hpc[p] # "idle" => ~InvalidRequest(hloc[p].req, hloc[p].alignment))
    /\ [][nmalloc' # nmalloc =>
            \/ \E p \in Procs :
                  /\ hpc[p] = "idle" /\ hpc'[p] = "m_lock"
                  /\ ~InvalidRequest(hloc'[p].req, hloc'[p].alignment)
            \/ /\ hpc' = hpc
               /\ raised' # <<>> /\ raised'[1].error = "ValueError"
               /\ InvalidRequest(raised'[1].size, raised'[1].alignment)
               /\ base' = base /\ flen' = flen]_vars

\* after a block was returned, a call with a negative alignment and a valid
\* size raised ValueError
C12_Witness ==
    /\ Len(blocks) >= 1
    /\ raised # <<>> /\ raised[1].error = "ValueError"
    /\ raised[1].alignment < 0 /\ raised[1].size > 0

----------------------------------------------------------------------------
(* Properties of Block.deref.                                              *)

\* the byte at index k of a view: 1 where somebody wrote, 0 elsewhere (the
\* file is extended with zeros)
ReadView(v, k) == IF \E w \in written : w[1] = v.start + k THEN 1 ELSE 0

\* C13: in every process that holds the heap, however it got it, deref of
\* any returned block returns a view of block.size bytes that starts at
\* file offset block.start; the block holds no byte of the arena header and
\* no byte written through another block, so it reads as zeros until it is
\* written; and a byte written through the block by any process reads as
\* written through the view of every process.
C13_DerefView ==
    \A p \in Procs : origin[p] # "none" =>
        \A i \in BlockIds :
            LET r == deref(maps[p], blocks[i])
            IN  /\ ~r.error
                /\ r.view.start = blocks[i].start
                /\ r.view.size = blocks[i].size
                /\ blocks[i].start >= HeapSize
                /\ \A w \in written :
                      /\ (w[1] >= blocks[i].start /\ w[1] < End(blocks[i])) => w[2] = i
                      /\ w[2] = i => ReadView(r.view, w[1] - blocks[i].start) = 1

\* a child forked before the allocation wrote the last byte of a block
\* larger than map_size, which the parent has mapped too, and another
\* block was returned after it
C13_Witness ==
    \E p \in Procs \ {Parent} : \E i \in BlockIds :
        /\ origin[p] = "fork"
        /\ blocks[i].size > map_size
        /\ <<End(blocks[i]) - 1, i>> \in written
        /\ Len(maps[Parent]) > blocks[i].start \div map_size
        /\ maps[Parent][(blocks[i].start \div map_size) + 1] # NoMap
        /\ Len(blocks) > i

----------------------------------------------------------------------------
(* Properties of the atomic cells.                                         *)

\* C14: an add with raise_on_overflow raises OverflowError exactly when
\* old + amount is outside the range of the type; when it raises, the cell
\* (what get() returns next) still holds the old value, and otherwise it
\* holds old + amount.  This is required of the native cells and of the
\* lock-based fallbacks alike.
C14_OverflowLeavesOld ==
    [][\A p \in AProcs :
          (apc[p] = "add_body" /\ apc'[p] # "add_body" /\ aloc[p].raise) =>
              LET c == aloc[p].cell
                  sum == cell[c] + aloc[p].amount
                  inrange == sum >= ctype_min(ctype) /\ sum <= ctype_max(ctype)
              IN  /\ aloc'[p].err <=> ~inrange
                  /\ cell'[c] = IF inrange THEN sum ELSE cell[c]]_vars

\* C15: the observer that read y and then x finds x >= y; its final reads
\* find both cells equal to the total number of iterations, which is what
\* the cells hold once every worker has finished.
C15_Ordering ==
    /\ apc[Observer] = "check_assert" => aloc[Observer].x >= aloc[Observer].y
    /\ apc[Observer] = "final_assert" =>
          aloc[Observer].x = total /\ aloc[Observer].y = total
    /\ (\A w \in Workers : apc[w] = "done") => cell["x"] = total /\ cell["y"] = total

\* the observer read a y above zero and then a larger x, while one worker
\* is between its two adds and another is about to add to y
C15_Witness ==
    /\ apc[Observer] = "check_assert"
    /\ aloc[Observer].y > 0 /\ aloc[Observer].x > aloc[Observer].y
    /\ \E v, w \in Workers :
          /\ v # w
          /\ apc[v] = "loop_y"
          /\ apc[w] = "add_body" /\ aloc[w].cell = "y"

----------------------------------------------------------------------------
(* Properties of Counter.                                                  *)

C17_InvalidIncRaises ==
    /\ [](\A p \in Procs :
            apc[p] \in IncPcs => aloc[p].amount >= 0 /\ aloc[p].exemplar # "bad")
    /\ [][counter_hist'.ninc # counter_hist.ninc =>
            \/ \E p \in Procs :
                  /\ apc[p] = "idle" /\ apc'[p] = "inc_add"
                  /\ aloc'[p].amount >= 0 /\ aloc'[p].exemplar # "bad"
            \/ /\ apc' = apc
               /\ cell' = cell
               /\ counter_exemplar' = counter_exemplar]_vars

\* after an inc(1) with an exemplar completed, a second inc call raised at
\* validation and left _total and the exemplar as they were
C17_Witness ==
    /\ counter_hist.ninc = 2 /\ counter_hist.passed = 1
    /\ \A p \in Procs : apc[p] = "idle"
    /\ cell["_total"] = 1
    /\ counter_exemplar = [amount |-> 1, timestamp |-> 1, labels |-> "trace"]

\* C18: the _total a _sample reports is never below the _total reported by
\* a _sample that completed before it began, whatever inc calls were made
\* in between (also calls that raised), with the native and with the
\* lock-based cell.
C18_TotalNeverDecreases ==
    \A p \in Procs : apc[p] = "sample_emit" => aloc[p].x >= aloc[p].floor

\* C19: for any interleaving of labels and collect calls of threads in one
\* and in several processes, every child ever created is the child of one
\* label tuple in the shared map (so no tuple ever had two blocks), the keys
\* of the shared map are the coerced tuples, a binding once made stays as it
\* is, and every entry of every process's cache names the block that the
\* shared map has for its tuple, each tuple at most once.
C19_OneChildPerLabels ==
    /\ [](/\ Cardinality({k \in LabelTuples : labeled_metrics[k] # NoMetric})
                = labeled_hist.nblocks
          /\ \A k, j \in LabelTuples :
                labeled_metrics[k] # NoMetric /\ labeled_metrics[k] = labeled_metrics[j]
                    => k = j
          /\ \A q \in Procs : \A i \in 1..Len(labeled_cache[q]) :
                /\ labeled_cache[q][i].values \in LabelTuples
                /\ labeled_cache[q][i].metric # NoMetric
                /\ labeled_cache[q][i].metric
                      = labeled_metrics[labeled_cache[q][i].values]
                /\ \A j \in 1..Len(labeled_cache[q]) :
                      labeled_cache[q][j].values = labeled_cache[q][i].values => j = i)
    /\ [][\A k \in LabelTuples :
            labeled_metrics[k] # NoMetric => labeled_metrics'[k] = labeled_metrics[k]]_vars

\* labels(None) in one process and labels(l='None') in another are both
\* about to cache the same child, the only one created
C19_Witness ==
    /\ lpc[1] = "l_put" /\ lloc[1].args.values = <<PyNone>> /\ lloc[1].metric = 1
    /\ lpc[2] = "l_put" /\ DOMAIN lloc[2].args.labels = {"l"}
    /\ lloc[2].args.labels["l"] = StrNone /\ lloc[2].metric = 1
    /\ labeled_metrics[<<"None">>] = 1
    /\ labeled_hist.nblocks = 1

\* a labels call that passes both positional and keyword values, a number
\* of positional values other than the number of label names (none at all
\* included), or keyword names other than the label names
InvalidLabels(args) ==
    \/ Len(args.values) > 0 /\ DOMAIN args.labels # {}
    \/ DOMAIN args.labels = {} /\ Len(args.values) # Len(labelnames)
    \/ /\ DOMAIN args.labels # {}
       /\ DOMAIN args.labels # {labelnames[i] : i \in 1..Len(labelnames)}

\* C20: no labels call goes on with both positional and keyword values,
\* with a wrong number of positional values or with wrong keyword names:
\* such a call raises ValueError at once, and neither the raise nor its
\* propagation changes the shared map or any cache.
C20_InvalidLabelsRaises ==
    /\ [](\A t \in Threads :
            lpc[t] \in {"l_lock", "l_cache", "l_shared", "l_get", "l_new", "l_put"}
                => ~InvalidLabels(lloc[t].args))
    /\ [][\A t \in Threads :
            lpc'[t] # lpc[t] /\ "l_raised" \in {lpc[t], lpc'[t]} =>
                /\ labeled_metrics' = labeled_metrics
                /\ labeled_cache' = labeled_cache
                /\ labeled_hist'.nblocks = labeled_hist.nblocks]_vars

\* after labels('x') created a child, labels() with no values raised and
\* the child is still the only one, in the shared map and in the cache
C20_Witness ==
    /\ lpc[1] = "l_raised"
    /\ lloc[1].args.values = <<>> /\ DOMAIN lloc[1].args.labels = {}
    /\ labeled_hist.nblocks = 1 /\ labeled_metrics[<<"x">>] = 1
    /\ Len(labeled_cache[1]) = 1

\* the label tuples of the sample sets that a collect call has handed to
\* its caller: those of the yielded family, none when the call raised
Emitted(t) ==
    IF lpc[t] = "c_yield"
    THEN {lloc[t].out[i].values : i \in 1..Len(lloc[t].out)}
    ELSE {}

\* C21: a collect call in which no child's _sample raises ends by yielding
\* the family, and the family has exactly one sample set for every label
\* tuple that was in the shared map when the call held the shared lock,
\* each sample set with the block that the shared map has for its tuple.
C21_CollectEmitsEveryChild ==
    \A t \in Threads :
        /\ lpc[t] = "c_raised" => lloc[t].failed # <<>>
        /\ lpc[t] = "c_yield" =>
              /\ \A k \in lloc[t].snap :
                    Cardinality({i \in 1..Len(lloc[t].out) : lloc[t].out[i].values = k}) = 1
              /\ \A i \in 1..Len(lloc[t].out) :
                    lloc[t].out[i].metric = labeled_metrics[lloc[t].out[i].values]

\* C30: when the _sample of one child raised in a collect call, the sample
\* sets of the other children that the call had to sample are emitted.
C30_OtherChildrenEmitted ==
    \A t \in Threads :
        lpc[t] = "c_raised" /\ lloc[t].failed # <<>> =>
            lloc[t].snap \ {lloc[t].failed} \subseteq Emitted(t)

\* C22: for an Enum with a non-empty state list, every sample has exactly
\* one state with value 1, the others 0, and that state is the one that the
\* last successful state() call before the sample read the value named, or
\* the first declared state if there was none; a state() call with an
\* undeclared name leaves the selection as it was.
C22_OneSelectedState ==
    /\ [](\A p \in Procs :
            enum_loc[p].out # <<>> =>
                /\ Len(enum_loc[p].out) = Len(enum_states)
                /\ \A i \in 1..Len(enum_states) :
                      enum_loc[p].out[i] =
                          IF enum_states[i] =
                                 (IF enum_loc[p].last = NoState
                                  THEN enum_states[1] ELSE enum_loc[p].last)
                          THEN 1 ELSE 0)
    /\ [][enum_hist'.nstate # enum_hist.nstate /\ enum_hist'.last = enum_hist.last
            => enum_value' = enum_value]_vars

\* after state('b') and a failed state('d'), a sample of the three-state
\* Enum reports b alone
C22_Witness ==
    /\ enum_states = <<"a", "b", "c">>
    /\ enum_hist.nstate = 2 /\ enum_hist.last = "b"
    /\ \E p \in Procs : enum_loc[p].out = <<0, 1, 0>>

\* C23: an Enum with an empty list of states is never constructed.
C23_NoEmptyEnum ==
    enum_hist.made => Len(enum_states) > 0

\* the number of completed observe calls with an amount <= t: the amounts
\* are 1 and 2, so calls[2] - calls[1] of the calls[1] calls observed 2
ObservedUpTo(t) ==
    IF t >= 2 THEN calls[1]
    ELSE IF t >= 1 THEN calls[1] - (calls[2] - calls[1])
    ELSE 0

\* C24: observe counts an amount in the first bucket whose upper bound is
\* >= the amount (an amount equal to a threshold in that threshold's
\* bucket), and the value emitted for a threshold t is the cumulative count
\* of the observations <= t: a Histogram sample made when every observe
\* call has completed reports for every threshold the number of calls with
\* an amount <= it, and as _count the number of calls.
C24_CumulativeBuckets ==
    /\ \A amount \in Amounts :
          /\ thresholds[bisect_left(thresholds, amount)] >= amount
          /\ \A k \in 1..(bisect_left(thresholds, amount) - 1) : thresholds[k] < amount
    /\ \A p \in Procs :
          (kind = "histogram" /\ pc[p] = "s_emit" /\ loc[p].quiet) =>
              /\ \A k \in Buckets :
                    Histogram_samples(p).buckets[k] = ObservedUpTo(thresholds[k])
              /\ Histogram_samples(p).count = calls[1]

\* after observe(1) and observe(2) a Histogram sample reports 1 at the
\* threshold 1 and 2 at +inf
C24_Witness ==
    \E p \in Procs :
        /\ kind = "histogram" /\ pc[p] = "s_emit" /\ loc[p].quiet
        /\ calls = <<2, 3>>
        /\ Histogram_samples(p).buckets = <<1, 2>>

\* a list in ascending order
Ascending(list) == \A i, j \in 1..Len(list) : i < j => list[i] <= list[j]
\* the list with +inf appended exactly when it is not empty and does not
\* end with +inf
WithInf(list) ==
    IF list # <<>> /\ list[Len(list)] # Inf THEN list \o <<Inf>> ELSE list

\* C25: the constructor rejects a bucket list that is not ascending and one
\* that has fewer than two thresholds once +inf was appended (to a list
\* that is not empty and does not end with +inf, and to no other); every
\* other list is accepted, and exposed with +inf appended in that case.
C25_HistogramBuckets ==
    factory_result.called =>
        /\ factory_result.error
              <=> (~Ascending(factory_buckets) \/ Len(WithInf(factory_buckets)) < 2)
        /\ ~factory_result.error => factory_result.thresholds = WithInf(factory_buckets)

\* buckets=[0, 1, 2] was exposed as [0, 1, 2, +inf]
C25_Witness ==
    /\ factory_buckets = <<0, 1, 2>>
    /\ factory_result = [called |-> TRUE, error |-> FALSE, thresholds |-> <<0, 1, 2, Inf>>]

\* the scopes that p has entered and not left: those it is inside, the one
\* whose increment was made and whose block is about to begin, less the
\* one whose decrement was made and whose with statement is about to end
ScopesOpen(p) ==
    gauge_scopes.open[p]
        + (IF apc[p] = "g_yield" THEN 1 ELSE 0)
        - (IF apc[p] = "g_exit" THEN 1 ELSE 0)

\* C26: a Gauge that only track_inprogress modifies has, in every state,
\* its initial value (0) plus the number of scopes entered and not yet
\* left, over all processes, however the scopes interleave and nest and
\* whether they end normally or with an exception.
C26_InProgress ==
    cell["_value"] = SumTo([p \in Procs |-> ScopesOpen(p)], NProcs)

\* a process is inside two nested scopes while another is inside one
C26_Witness ==
    /\ gauge_scopes.open[1] = 2 /\ gauge_scopes.open[2] = 1
    /\ apc[1] = "idle" /\ apc[2] = "idle"
    /\ cell["_value"] = 3

\* C27: after any sequence of queries (len, d[k], iteration, k in d, |)
\* and mutations (d[k] = v, del d[k], update, |=, clear), one at a time,
\* every query of the shared Dict has the answer of the reference mapping,
\* every mutation raises KeyError exactly when the reference mapping does,
\* and the dict unpickled from the shared header and block, which is what
\* every handle reads, is the reference mapping.
C27_DictRefinesMapping ==
    /\ dict_hist.got.err = dict_hist.want.err
    /\ dict_hist.got.err = "" => dict_hist.got.val = dict_hist.want.val
    /\ Object_object = [err |-> "", val |-> dict_model]

\* a Dict that held four items was cleared and given one item: the block
\* still holds the end of the longer pickle, and d['b'] is answered
C27_Witness ==
    /\ object_header.len = 4
    /\ Len(object_payload) >= 10 /\ object_payload[10] = "}"
    /\ dict_model = <<<<"b", "2">>>>
    /\ dict_hist.op = "getitem" /\ dict_hist.got.err = "" /\ dict_hist.got.val = "2"

\* C28: after every mutation _len <= _size; a mutation gives the header a
\* new block only when the length of the pickle exceeds the size of the
\* block it had, the new block then has at least 4 times that length, and
\* every other mutation leaves _start and _size as they are.
C28_HeaderGrowth ==
    /\ [](object_header.len <= object_header.size)
    /\ [][/\ ((object_header'.start # object_header.start
                 \/ object_header'.size # object_header.size)
               => (/\ object_header'.len > object_header.size
                   /\ object_header'.size >= 4 * object_header'.len
                   /\ object_header'.start >= object_header.start + object_header.size))
           /\ ((dict_hist'.nmutate # dict_hist.nmutate
                 /\ object_header'.len <= object_header.size)
               => (/\ object_header'.start = object_header.start
                   /\ object_header'.size = object_header.size))]_vars

\* the Dict outgrew its first block and has a second one
C28_Witness ==
    /\ object_header.start > CACHELINESIZE
    /\ object_header.len = 10
    /\ object_header.size = 40

\* C29: the exemplar that a Counter sample carries is, with its labels, its
\* amount and its timestamp, one of the triples that a single inc call
\* wrote, for any interleaving of inc calls with exemplars and _sample
\* calls.
C29_ExemplarOfOneInc ==
    \A p \in Procs :
        (apc[p] \in {"sample_total", "get_body", "sample_emit"} /\ aloc[p].timestamp # 0) =>
            [amount |-> aloc[p].amount, timestamp |-> aloc[p].timestamp,
             labels |-> aloc[p].labels] \in counter_hist.written

\* a sample carries the exemplar of the second of two inc calls with
\* exemplars and different amounts
C29_Witness ==
    \E p \in Procs :
        /\ apc[p] = "sample_emit" /\ aloc[p].timestamp # 0
        /\ Cardinality({w.amount : w \in counter_hist.written}) = 2
        /\ aloc[p].amount = counter_exemplar.amount

\* C31: malloc places the block at candidate = align(_base, alignment)
\* whenever candidate + size does not exceed the next map_size boundary
\* above _base, also when the block exactly fills the rest of the window;
\* it moves the block to the boundary only when candidate + size is
\* strictly greater than the boundary.
C31_ExactFitStays ==
    [][\A p \in Procs :
          (hpc[p] \in {"m_align", "m_extend"} /\ hpc'[p] = "m_bump") =>
              LET candidate == IF hpc[p] = "m_align"
                               THEN align(base, hloc[p].alignment) ELSE base
                  boundary == IF hpc[p] = "m_align"
                              THEN align(base, map_size) ELSE hloc[p].total
              IN  IF candidate + hloc[p].size <= boundary
                  THEN base' = candidate
                  ELSE base' = boundary]_vars

\* no _sample is in progress and no observe is between its ticket
\* fetch-add and its last data add
Quiescent ==
    \A p \in Procs : pc[p] \notin SamplePcs \cup {"o_bucket", "o_sum", "o_count"}

\* C32: in every state where no _sample is in progress and no observe is
\* between its ticket fetch-add and its last data add, the cold buffer (the
\* one the top bit of _count does not select) has count, sum and every
\* bucket equal to 0, and the count of the hot buffer is the low bits of
\* _count.
C32_ColdIsEmpty ==
    Quiescent =>
        LET hot == Shr(count_, TopShift) IN
            /\ data[1 - hot] = ZeroData
            /\ data[hot].count = BitAnd(count_, genmask(Width - 2, 0))

\* C34: the top bit of _count, which selects the hot buffer, changes only
\* as the effect of a _sample call (its fetch-add of 1 << 63): the add(1)
\* of observe never alters it, also when the low ticket bits are all ones.
C34_TopBitOnlyBySample ==
    [][Shr(count_', TopShift) # Shr(count_, TopShift) =>
          \E p \in Procs : pc[p] = "s_flip" /\ pc'[p] = "s_check"]_vars

\* a writer was killed after its ticket fetch-add and before its last data
\* add: _count holds one ticket more than the running processes took
Killed == BitAnd(count_, genmask(Width - 2, 0)) = tickets[1] + 1

\* C33: if a writer stops for ever after its ticket fetch-add on _count and
\* before its last data add, the next _sample that makes that buffer cold
\* never leaves its quiesce loop and never releases the sample lock, so
\* every later _sample on the metric stays blocked on the lock.
C33_StuckWriterBlocksSamples ==
    /\ [](Killed =>
            \A q \in Procs :
                /\ pc[q] \in SamplePcs => pc[q] \in {"s_lock", "s_flip", "s_check"}
                /\ pc[q] = "s_check" =>
                      \A r \in Procs \ {q} : pc[r] \in SamplePcs => pc[r] = "s_lock")
    /\ [][Killed =>
            \A q \in Procs :
                pc[q] = "s_check" => (pc'[q] = "s_check" /\ lock' = q)]_vars

\* after the writer was killed one _sample spins in its quiesce loop with
\* the lock, and a later _sample waits for the lock
C33_Witness ==
    /\ Killed
    /\ \E q \in Procs, r \in Procs :
          /\ pc[q] = "s_check" /\ lock = q
          /\ data[loc[q].cold].count # loc[q].count
          /\ pc[r] = "s_lock"

\* C35: Histogram.observe with an exemplar, which acquires the sample
\* lock, never deadlocks with a _sample that holds the lock and spins in
\* its quiesce loop: an observer is past all its data adds when it asks for
\* the lock, so a spinning sampler always waits for a process whose next
\* step is possible, and under fair scheduling both calls return.
C35_NoDeadlock ==
    /\ [](\A q \in Procs :
            (pc[q] = "s_check" /\ data[loc[q].cold].count # loc[q].count) =>
                /\ lock = q
                /\ \E p \in Procs :
                      /\ pc[p] \in {"o_bucket", "o_sum", "o_count"}
                      /\ loc[p].d = loc[q].cold
                      /\ ENABLED Observe(p))
    /\ \A p \in Procs :
          (pc[p] \in ObservePcs /\ loc[p].exemplar # None) ~> (pc[p] = "idle")
    /\ \A q \in Procs : (pc[q] \in SamplePcs) ~> (pc[q] = "idle")

\* an observe with an exemplar still has data adds to perform in the buffer
\* that a _sample, holding the lock, waits for in its quiesce loop
C35_Witness ==
    \E p, q \in Procs :
        /\ pc[p] \in {"o_bucket", "o_sum", "o_count"} /\ loc[p].exemplar # None
        /\ pc[q] = "s_check" /\ lock = q
        /\ loc[p].d = loc[q].cold
        /\ data[loc[q].cold].count # loc[q].count

\* C36: while collect in one thread iterates over the children, no other
\* thread of the same process inserts a new entry into the local cache
\* being iterated: a labels() call with a new label tuple completes before
\* the iteration starts or takes effect after it ends.
C36_NoInsertWhileIterating ==
    [][\A t \in Threads :
          lpc[t] = "c_next" =>
              labeled_cache'[ProcessOf(t)] = labeled_cache[ProcessOf(t)]]_vars

\* C37: when the block wrapped by count_exceptions(E) raises an exception
\* of type E, the counter is incremented by 1 and the same exception still
\* propagates to the caller of the block; an exception of another type
\* propagates without incrementing.
C37_CountedAndPropagated ==
    LET b == counter_hist.block IN
        b.raised # NoException =>
            /\ b.propagates
            /\ b.counted <=> issubclass(b.raised, b.exception)

\* C38: lst += other on a shared List appends the elements to the shared
\* payload and yields the shared List itself, as |= of Dict does: the name
\* stays bound to the List, so what is appended through it afterwards is
\* in shared memory and is what every handle of the List sees.
C38_IaddYieldsSharedList ==
    /\ \A p \in Procs : list_names[p].shared
    /\ List_object = list_hist.model

\* C39: within one process, deserializing several Blocks (or Boxes) of the
\* same backing file yields a single Heap object with one set of mappings:
\* no process holds more than one Heap object for the backing file.
C39_OneHeapPerProcess ==
    \A p \in Procs : heaps[p] <= 1

====
